---- MODULE Spec2Model ----
(***************************************************************************)
(* Model of the robot control core of little_eighteen:                     *)
(*   MotorControl      (app/services/core.py)                              *)
(*   CommandExecutor   (app/utils/regex_command.py)                        *)
(* The executor's two coroutines (dispatcher and distance monitor) run on  *)
(* one asyncio event loop, so every stretch of code between two awaits     *)
(* that can suspend is one atomic action.  measure_distance runs on the    *)
(* executor's single worker thread and is one action of its own.           *)
(***************************************************************************)
EXTENDS Integers, Sequences, FiniteSets, TLC

(* ------------------------------ bounds -------------------------------- *)
\* number of add_command calls made by collaborators (HTTP, demo, voice)
MaxCmds == 2
\* wall clock (tenths of a second) is not advanced past this value
MaxTime == 20
\* iterations of the monitor loop that start a measurement
MaxTicks == 1
\* set_speed calls made by collaborators
MaxSetSpeed == 1
\* largest speed found in runtime_state.json when the application boots
MaxStored == 120
\* start_demo calls and stop_demo calls made in the demo scenario
MaxDemoStarts == 2
MaxDemoStops == 1
\* VideoCapture objects created by start_camera_capture
MaxCamOpens == 3
\* process_frame calls made on the voice activity detector
MaxFrames == 8

(* ------------------------- program constants -------------------------- *)
IN1 == 18
IN2 == 23
IN3 == 24
IN4 == 25
IN5 == 12
IN6 == 16
IN7 == 20
IN8 == 21
MODE_FORWARD == 1
MODE_BACK == 2
MODE_STOP == 3
LOW == 0
HIGH == 1
DEFAULT_SPEED == 50
MIN_SPEED_LIMIT == 20
MAX_SPEED_LIMIT == 100
DISTANCE_BUFFER_SIZE == 5
DEFAULT_TEMPERATURE == 20
\* VADProcessor.__init__ defaults, in milliseconds
min_speech_duration_ms == 300
min_silence_duration_ms == 500
DISTANCE_DETECTION_THRESHOLD == 20
OBSTACLE_BASE_DISTANCE == 10
\* OBSTACLE_SPEED_FACTOR = 0.4, kept as the exact fraction 4/10
OBSTACLE_SPEED_FACTOR_NUM == 4
OBSTACLE_SPEED_FACTOR_DEN == 10
\* GRACE_PERIOD_DURATION = 2.0 s, in tenths of a second
GRACE_PERIOD_DURATION == 20
\* CORRECTION_LF/LB/RF/RB = 1.0
CORRECTION_LF == 1
CORRECTION_LB == 1
CORRECTION_RF == 1
CORRECTION_RB == 1

Pins == {IN1, IN2, IN3, IN4, IN5, IN6, IN7, IN8}
\* indices of self.pwms: EN1 (LF), EN2 (LB), EN3 (RB), EN4 (RF)
PWM_LF == 1
PWM_LB == 2
PWM_RB == 3
PWM_RF == 4
Pwms == {PWM_LF, PWM_LB, PWM_RB, PWM_RF}

(* --------------------------- input domains ---------------------------- *)
\* names collaborators submit (the routes pass any string on): "fly" is a
\* name MotorControl lacks, "_apply_speed" a method of MotorControl that is
\* not a motion command
Commands == {"move_forward", "move_back", "turn_left", "turn_right",
             "stop", "fly", "_apply_speed"}
\* arguments passed to set_speed
SpeedInputs == {10, 50}
\* arguments passed to set_speed while the loops run: the default speed,
\* which a store holding 20 or no store does not contain (the trailing
\* assignments of _save_speed run) and the store the call leaves behind does
\* (its early return)
LoopSpeeds == {50}
\* what the rangefinder reports in the sensor scenario (0: no echo); the
\* readings are even, so the median of an even number of them is an integer
SensorEchoes == {0, 10, 50, 500}
\* names submitted in the queue scenario
LiveCommands == {"move_back", "turn_left", "stop"}
\* values assigned to distance_detection_enabled
FlagValues == {"on", "off"}
\* what the rangefinder reports: a raw distance in cm; 0 stands for no echo
\* within HC_SR_04_TIMEOUT
Echoes == {0, 5, 25}
\* steps of the wall clock, in tenths of a second
TimeSteps == {20}
\* content of runtime_state.json at construction: <<>> when the file is
\* absent, else <<speed>>
StoreInit == {<<>>, <<20>>}
\* content of a legacy settings.json at construction, same encoding
LegacyInit == {<<>>}
\* the same in the obstacle scenario: a legacy file holding 70 is migrated by
\* __init__ through _save_speed, which creates the sensor attributes
ObstacleLegacy == {<<>>, <<70>>}
\* content of either file that json.load or the dict access rejects (not
\* JSON, or a JSON value that is no object)
MalformedStore == <<0, 0>>
\* content of runtime_state.json at construction in the drivetrain scenario
MotorStores == {<<>>, <<5>>, <<50>>, <<500>>, MalformedStore}
\* content of settings.json at construction in the drivetrain scenario
MotorLegacies == {<<>>, <<70>>, MalformedStore}
\* what the echo pin reports in the ranging scenario: the pulse duration in
\* units of 10 microseconds (0: no echo within HC_SR_04_TIMEOUT, which is
\* 3000 units); the durations are even, so every distance is an integer
Pulses == {0, 10, 100, 2000}
\* values DEFAULT_TEMPERATURE is configured to in the ranging scenario, in
\* degrees Celsius
Temperatures == {0 - 10, 0, DEFAULT_TEMPERATURE, 40}
\* content of runtime_state.json when the application boots
BootStores == {<<>>, MalformedStore} \cup {<<s>> : s \in 0 .. MaxStored}
\* arguments passed to set_speed in the drivetrain scenario
MotorSpeeds == {10, 50, 150}
\* names submitted in the shutdown scenario: a continuous motion, a
\* rotation and stop
ShutdownCommands == {"move_forward", "turn_left", "stop"}
\* names submitted in the failure scenario: "set_speed" is a method of
\* MotorControl that raises TypeError when the dispatcher calls it without
\* an argument
FaultCommands == {"set_speed", "move_forward", "stop"}
\* names submitted in the hardware-fault scenario: the rotations and stop
RotationCommands == {"turn_left", "turn_right", "stop"}
\* hardware writes a primitive or stop() has completed when a write raises:
\* each makes eight pin writes followed by four PWM writes
FaultPoints == 0 .. 11
\* the reading of an obstacle closer than the threshold the monitor uses
HazardEcho == CHOOSE e \in Echoes : 0 < e /\ e < DISTANCE_DETECTION_THRESHOLD

VARIABLES
    queue,        \* command_queue: sequence of [id, name]
    dispPC,       \* dispatcher position: "created" (the task has not run
                  \* yet), "idle" (at get), "hold" (in sleep(1)), "errsleep"
                  \* (in the handler's sleep(0.1)), "done" (loop left)
    pins,         \* level of each direction pin
    duty,         \* duty cycle of each PWM channel
    speed,        \* _current_speed
    store,        \* 'speed' key of runtime_state.json: <<>> or <<speed>>
    detection,    \* _distance_detection_enabled: "unset", "on", "off"
    sensorAttrs,  \* TRUE once temperature, distance_buffer, buffer_size exist
    buffer,       \* distance_buffer
    graceActive,  \* _distance_monitor_grace_period_active
    graceEnd,     \* _distance_monitor_grace_period_end_time
    now,          \* time.time(), tenths of a second
    monPC,        \* monitor position: "top", "measuring", "measured", "sleeping"
    monResult,    \* outcome of the measurement in flight
    tickStop,     \* history: the monitor's iteration in progress led to a stop
    nTicks,       \* measurements the monitor has started so far
    nSubmitted,   \* add_command calls made by collaborators so far
    nSetSpeed,    \* set_speed calls made so far
    executed,     \* history: commands the dispatcher has started, in order
    cancelled,    \* history: ids removed from the queue by a stop's drain
    lastExec,     \* history: name of the command the dispatcher ran last
    running,      \* _running
    cmdTasks,     \* dispatcher tasks that exist and are not done
    monTasks,     \* monitor tasks that exist and are not done
    evicted,      \* history: <<x>> once a reading x was evicted from the buffer
    shutdown,     \* position of stop_threads: "none" (not called), "joining" (in
                  \* wait_for), "cancelling" (awaiting the monitor), "done"
    sonar,        \* temperature: the configured temperature; pulse_duration
                  \* and distance: the locals of the last measure_distance
                  \* call that computed a distance (0 before the first)
    demo,         \* RobotDemos: the demo task, the stop event, the calls
                  \* waiting in stop_demo and what the task has submitted
    cam,          \* CameraStreamer: its attributes, the position of the
                  \* request handler inside start/stop_camera_capture and
                  \* of every capture thread
    vad,          \* VADProcessor: its attributes and the clock it reads
    workPC,       \* the executor's worker thread: "none" (no call handed to
                  \* it), else the line of core.py at which its
                  \* measure_distance call continues
    loopPC,       \* the event-loop thread inside a synchronous call of
                  \* MotorControl: "none", else the line of core.py at which
                  \* set_speed (156..159) or measure_distance continues, or
                  \* "sleep" (in the time.sleep of the agent's move)
    agentDir,     \* the direction of the agent's move while its set_speed
                  \* is under way, else "none"
    host          \* the hosting application: pc is the position of lifespan
                  \* ("library" when the objects are used without it), motor
                  \* and executor tell whether the two globals are set

vars == <<queue, dispPC, pins, duty, speed, store, detection, sensorAttrs,
          buffer, graceActive, graceEnd, now, monPC, monResult, tickStop,
          nTicks,
          nSubmitted, nSetSpeed, executed, cancelled, lastExec,
          running, cmdTasks, monTasks, evicted, shutdown, host, sonar,
          demo, cam, vad, workPC, loopPC, agentDir>>

\* the state of the collaborators around MotorControl and CommandExecutor
\* the camera and the voice front end
periphVars == <<cam, vad>>
\* where each of the two threads that use MotorControl stands
threadVars == <<workPC, loopPC, agentDir>>
auxVars == <<host, sonar, demo, periphVars, threadVars>>
\* the state of MotorControl and CommandExecutor themselves
coreVars == <<queue, dispPC, pins, duty, speed, store, detection, sensorAttrs,
              buffer, graceActive, graceEnd, now, monPC, monResult, tickStop,
              nTicks, nSubmitted, nSetSpeed, executed, cancelled, lastExec,
              running, cmdTasks, monTasks, evicted, shutdown, threadVars>>

driveVars == <<pins, duty>>
sensorVars == <<detection, sensorAttrs, buffer>>
graceVars == <<graceActive, graceEnd>>
monVars == <<monPC, monResult, tickStop>>
histVars == <<executed, cancelled, lastExec>>
taskVars == <<running, cmdTasks, monTasks, shutdown, auxVars>>

(* ------------------------------ helpers ------------------------------- *)
Max(a, b) == IF a >= b THEN a ELSE b
Min(a, b) == IF a <= b THEN a ELSE b
Range(s) == {s[i] : i \in 1..Len(s)}

(* ----------------------- MotorControl (core.py) ----------------------- *)
\* a clamp without the upper limit
ClampSpeed_NoUpper(x) == Max(MIN_SPEED_LIMIT, x)

\* max(MIN_SPEED_LIMIT, min(100, speed))
ClampSpeed(x) == Max(MIN_SPEED_LIMIT, Min(MAX_SPEED_LIMIT, x))

\* is_right_motor of __set_motor_state: the first pins whose wheel gets the
\* inverted pattern
IsRightMotor(motor_in1) == motor_in1 \in {IN5, IN7}

\* __set_motor_state: the two pin writes for one wheel; IN5 and IN7 are
\* treated as right-side first pins and get the inverted pattern
SetMotorState(p, motor_in1, motor_in2, mode) ==
    LET is_right_motor == IsRightMotor(motor_in1)
    IN  IF mode = MODE_FORWARD
        THEN IF is_right_motor
             THEN [p EXCEPT ![motor_in1] = HIGH, ![motor_in2] = LOW]
             ELSE [p EXCEPT ![motor_in1] = LOW, ![motor_in2] = HIGH]
        ELSE IF mode = MODE_BACK
        THEN IF is_right_motor
             THEN [p EXCEPT ![motor_in1] = LOW, ![motor_in2] = HIGH]
             ELSE [p EXCEPT ![motor_in1] = HIGH, ![motor_in2] = LOW]
        ELSE IF mode = MODE_STOP
        THEN [p EXCEPT ![motor_in1] = LOW, ![motor_in2] = LOW]
        ELSE p

\* the four wheels and the pin pair each per-wheel control method
\* (control_left_front .. control_right_back) writes
Wheels == {"left_front", "right_front", "left_back", "right_back"}
WheelPins ==
    [left_front  |-> <<IN7, IN8>>,
     right_front |-> <<IN1, IN2>>,
     left_back   |-> <<IN5, IN6>>,
     right_back  |-> <<IN3, IN4>>]
\* the wheels the control methods (and the primitives' docstrings) name as
\* right-side and left-side
RightWheels == {"right_front", "right_back"}
LeftWheels == {"left_front", "left_back"}
\* the wheel on the other end of each diagonal of the chassis
DiagonalOf ==
    [left_front  |-> "right_back",
     right_back  |-> "left_front",
     right_front |-> "left_back",
     left_back   |-> "right_front"]
\* a wheel is energized when one of its direction pins is HIGH
Energized(p, w) == p[WheelPins[w][1]] # LOW \/ p[WheelPins[w][2]] # LOW
\* the two-pin pattern __set_motor_state writes to wheel w for a mode
WheelPattern(p, w, mode) ==
    LET q == SetMotorState(p, WheelPins[w][1], WheelPins[w][2], mode)
    IN  <<q[WheelPins[w][1]], q[WheelPins[w][2]]>>

\* the four _control_motor_pair calls of a primitive, in source order
ControlFour(p, m12, m34, m56, m78) ==
    SetMotorState(SetMotorState(SetMotorState(SetMotorState(
        p, IN1, IN2, m12), IN3, IN4, m34), IN5, IN6, m56), IN7, IN8, m78)

\* the modes each motion primitive passes for (IN1,IN2) (IN3,IN4) (IN5,IN6) (IN7,IN8)
PrimitiveModes ==
    [move_forward       |-> <<MODE_FORWARD, MODE_FORWARD, MODE_FORWARD, MODE_FORWARD>>,
     move_back          |-> <<MODE_BACK, MODE_BACK, MODE_BACK, MODE_BACK>>,
     move_left          |-> <<MODE_FORWARD, MODE_BACK, MODE_FORWARD, MODE_BACK>>,
     move_right         |-> <<MODE_BACK, MODE_FORWARD, MODE_BACK, MODE_FORWARD>>,
     turn_left          |-> <<MODE_FORWARD, MODE_FORWARD, MODE_BACK, MODE_BACK>>,
     turn_right         |-> <<MODE_BACK, MODE_BACK, MODE_FORWARD, MODE_FORWARD>>,
     move_left_forward  |-> <<MODE_STOP, MODE_FORWARD, MODE_STOP, MODE_BACK>>,
     move_right_forward |-> <<MODE_BACK, MODE_STOP, MODE_FORWARD, MODE_STOP>>,
     move_left_back     |-> <<MODE_FORWARD, MODE_STOP, MODE_BACK, MODE_STOP>>,
     move_right_back    |-> <<MODE_STOP, MODE_STOP, MODE_STOP, MODE_FORWARD>>]

MotionPrimitives == DOMAIN PrimitiveModes

\* the eleven motion commands: the ten primitives and stop
MotionCommands == MotionPrimitives \cup {"stop"}

\* attributes of MotorControl whose call without arguments raises
RaisesWithoutArgs == {"set_speed"}

\* hasattr(self.control, name) for the names the model submits
HasAttr(name) ==
    name \in MotionCommands \cup {"_apply_speed"} \cup RaisesWithoutArgs

\* _apply_speed: every channel gets speed times its calibration factor
ApplySpeed(s) ==
    [w \in Pwms |-> IF w = PWM_LF THEN s * CORRECTION_LF
                    ELSE IF w = PWM_LB THEN s * CORRECTION_LB
                    ELSE IF w = PWM_RF THEN s * CORRECTION_RF
                    ELSE s * CORRECTION_RB]

\* a motion primitive: four wheel writes, then _apply_speed
Primitive(name, d, s) ==
    LET m == PrimitiveModes[name]
    IN  [pins |-> ControlFour(d.pins, m[1], m[2], m[3], m[4]),
         duty |-> ApplySpeed(s)]

\* stop() that lowers the pins but leaves the duty cycles
MotorStop_KeepDuty(d) ==
    [pins |-> [pin \in Pins |-> LOW],
     duty |-> d.duty]

\* MotorControl.stop
MotorStop(d) ==
    [pins |-> [pin \in Pins |-> LOW],
     duty |-> [w \in Pwms |-> 0]]

FullyStopped(d) ==
    /\ \A pin \in Pins : d.pins[pin] = LOW
    /\ \A w \in Pwms : d.duty[w] = 0

Drive == [pins |-> pins, duty |-> duty]

\* the echoes of Echoes and SensorEchoes are whole centimetres; the distance
\* computed from a pulse is in millionths of a centimetre
WholeCm == 1
MicroCm == 1000000

\* statistics.median of a non-empty list (readings are odd integers, so the
\* mean of the two middle values of an even-length list is an integer)
Median(buf) ==
    LET srt == SortSeq(buf, LAMBDA a, b : a < b)
        n == Len(srt)
    IN  IF n % 2 = 1 THEN srt[(n + 1) \div 2]
        ELSE (srt[n \div 2] + srt[n \div 2 + 1]) \div 2

\* a buffer that, when full, drops the new reading's predecessor instead of
\* the oldest reading
PushSample_KeepsOldest(buf, x) ==
    IF Len(buf) >= DISTANCE_BUFFER_SIZE
    THEN Append(SubSeq(buf, 1, Len(buf) - 1), x)
    ELSE Append(buf, x)

\* the ring buffer after one more reading
PushSample(buf, x) ==
    LET b == Append(buf, x)
    IN  IF Len(b) > DISTANCE_BUFFER_SIZE THEN Tail(b) ELSE b

\* round(x, 2) of a distance held as a whole number of 1/perCm centimetres:
\* the nearest hundredth of a centimetre.  A reading halfway between two
\* hundredths in decimal is a binary fraction that round() takes upwards for
\* every reading of Pulses at Temperatures; a whole number of centimetres or
\* of hundredths is its own rounding
Round2(x, perCm) ==
    LET q == perCm \div 100
    IN  IF q <= 1 THEN x ELSE ((2 * x + q) \div (2 * q)) * q

\* what a call of measure_distance yields: a number (kind "value": the
\* filtered distance, or the failure sentinel -1), None, or an AttributeError
Value(n) == [kind |-> "value", value |-> n]
NoneResult == [kind |-> "None", value |-> 0]
ErrorResult == [kind |-> "error", value |-> 0]

\* a measure_distance that measures although detection is disabled
MeasureDistance_IgnoresFlag(det, attrs, buf, e, perCm) ==
    IF det = "unset"
    THEN [result |-> ErrorResult, buffer |-> buf,
          triggered |-> FALSE, pushed |-> FALSE]
    ELSE IF e = 0
    THEN [result |-> Value(-1), buffer |-> buf,
          triggered |-> TRUE, pushed |-> FALSE]
    ELSE IF ~attrs
    THEN [result |-> ErrorResult, buffer |-> buf,
          triggered |-> TRUE, pushed |-> FALSE]
    ELSE LET b == PushSample(buf, e)
         IN  [result |-> Value(Round2(Median(b), perCm)), buffer |-> b,
              triggered |-> TRUE, pushed |-> TRUE]

\* a measure_distance that forgets its samples when an echo wait times out
MeasureDistance_TimeoutClears(det, attrs, buf, e, perCm) ==
    IF det = "unset"
    THEN [result |-> ErrorResult, buffer |-> buf,
          triggered |-> FALSE, pushed |-> FALSE]
    ELSE IF det = "off"
    THEN [result |-> NoneResult, buffer |-> buf,
          triggered |-> FALSE, pushed |-> FALSE]
    ELSE IF e = 0
    THEN [result |-> Value(-1), buffer |-> <<>>,
          triggered |-> TRUE, pushed |-> FALSE]
    ELSE IF ~attrs
    THEN [result |-> ErrorResult, buffer |-> buf,
          triggered |-> TRUE, pushed |-> FALSE]
    ELSE LET b == PushSample(buf, e)
         IN  [result |-> Value(Round2(Median(b), perCm)), buffer |-> b,
              triggered |-> TRUE, pushed |-> TRUE]

\* measure_distance: [result, buffer, triggered, pushed]; triggered tells
\* whether the trigger pin was pulsed, pushed whether a reading was appended
\* to the buffer; the reading e and the buffer are whole numbers of 1/perCm
\* centimetres.  _distance_detection_enabled,
\* temperature and distance_buffer exist only once _save_speed (or, for the
\* flag, the property setter) has created them; reading a missing one raises
MeasureDistance(det, attrs, buf, e, perCm) ==
    IF det = "unset"
    THEN [result |-> ErrorResult, buffer |-> buf,
          triggered |-> FALSE, pushed |-> FALSE]
    ELSE IF det = "off"
    THEN [result |-> NoneResult, buffer |-> buf,
          triggered |-> FALSE, pushed |-> FALSE]
    ELSE IF e = 0
    THEN [result |-> Value(-1), buffer |-> buf,
          triggered |-> TRUE, pushed |-> FALSE]
    ELSE IF ~attrs
    THEN [result |-> ErrorResult, buffer |-> buf,
          triggered |-> TRUE, pushed |-> FALSE]
    ELSE LET b == PushSample(buf, e)
         IN  [result |-> Value(Round2(Median(b), perCm)), buffer |-> b,
              triggered |-> TRUE, pushed |-> TRUE]

\* the statements of measure_distance at which a thread inside the call can
\* be found, by their line in core.py: the test of the flag (364), the
\* pulse and the two echo waits up to the append (367..399), the length
\* test (400), pop(0) (401), the emptiness test (404) and the median (405)
MeasureLines == {"L364", "L367", "L400", "L401", "L404", "L405"}

\* the trailing assignments of _save_speed, by their line in core.py
SaveLines == {"L156", "L157", "L158", "L159"}

\* the attributes _save_speed creates exist once a call has assigned them:
\* attrs tells that an earlier call has finished, spc is the line at which
\* a call in progress stands
TemperatureSet(attrs, spc) == attrs \/ spc \in {"L158", "L159"}
BufferSet(attrs, spc) == attrs \/ spc = "L159"
SizeSet(attrs, spc) == attrs

\* one statement of measure_distance, executed by a thread that stands at
\* line pc while the rangefinder reports e: [pc, result, buffer, popped].
\* pc "none" tells that the call has returned (or raised) with result.  The
\* statements from the pulse to the append touch the object only in reading
\* temperature and in appending to distance_buffer, attributes that are
\* never deleted and of which only the buffer's content is used, so they
\* form one step.  pop(0) of an empty list raises IndexError, the median of
\* an empty list StatisticsError
MeasureLine(pc, det, attrs, spc, buf, e, perCm) ==
    LET Return(r) == [pc |-> "none", result |-> r, buffer |-> buf,
                      popped |-> FALSE]
        Goto(l) == [pc |-> l, result |-> NoneResult, buffer |-> buf,
                    popped |-> FALSE]
    IN  CASE pc = "L364" ->
                 IF det = "unset" THEN Return(ErrorResult)
                 ELSE IF det = "off" THEN Return(NoneResult)
                 ELSE Goto("L367")
          [] pc = "L367" ->
                 IF e = 0 THEN Return(Value(-1))
                 ELSE IF ~TemperatureSet(attrs, spc) \/ ~BufferSet(attrs, spc)
                 THEN Return(ErrorResult)
                 ELSE [pc |-> "L400", result |-> NoneResult,
                       buffer |-> Append(buf, e), popped |-> FALSE]
          [] pc = "L400" ->
                 IF ~SizeSet(attrs, spc) THEN Return(ErrorResult)
                 ELSE IF Len(buf) > DISTANCE_BUFFER_SIZE THEN Goto("L401")
                 ELSE Goto("L404")
          [] pc = "L401" ->
                 IF buf = <<>> THEN Return(ErrorResult)
                 ELSE [pc |-> "L404", result |-> NoneResult,
                       buffer |-> Tail(buf), popped |-> TRUE]
          [] pc = "L404" ->
                 IF buf = <<>> THEN Return(Value(-1)) ELSE Goto("L405")
          [] pc = "L405" ->
                 IF buf = <<>> THEN Return(ErrorResult)
                 ELSE Return(Value(Round2(Median(buf), perCm)))

\* the reading pop(0) removes when a push finds the buffer full
Evicted(buf, pushed, old) ==
    IF pushed /\ Len(buf) >= DISTANCE_BUFFER_SIZE THEN <<Head(buf)>> ELSE old

\* _save_speed: the write to the store (skipped when the value is unchanged)
\* and, only when the early return is not taken, the sensor attributes.
\* Reading a malformed file raises inside the try block: the error is
\* logged, nothing is written, and the trailing assignments still run
SaveSpeed(st, s) ==
    IF st = MalformedStore
    THEN [store |-> st, touched |-> TRUE]
    ELSE IF st = <<s>>
    THEN [store |-> st, touched |-> FALSE]
    ELSE [store |-> <<s>>, touched |-> TRUE]

\* _load_speed: [speed, store, touched]; a legacy settings.json is migrated
\* through _save_speed when runtime_state.json is absent.  A malformed file
\* of either kind raises and ends in the outer handler's DEFAULT_SPEED
LoadSpeed(st, legacy) ==
    LET migrate == legacy # <<>> /\ legacy # MalformedStore /\ st = <<>>
        saved == IF migrate THEN SaveSpeed(st, legacy[1])
                 ELSE [store |-> st, touched |-> FALSE]
    IN  [speed |-> IF saved.store = <<>> \/ saved.store = MalformedStore
                   THEN DEFAULT_SPEED
                   ELSE ClampSpeed(saved.store[1]),
         store |-> saved.store,
         touched |-> saved.touched]

(* ------------------- CommandExecutor (regex_command.py) --------------- *)
\* a drain loop that stops one entry early
DrainQueue_KeepLast(q) == IF q = <<>> THEN <<>> ELSE <<q[Len(q)]>>

\* the while-loop of add_command("stop") that empties the queue
DrainQueue(q) == <<>>

\* asyncio.Queue.put on an unbounded queue: append, never suspends
QueuePut(q, item) == Append(q, item)

\* a get() that hands out the entry put last
QueueGet_Newest(q) ==
    [item |-> q[Len(q)], rest |-> SubSeq(q, 1, Len(q) - 1)]

\* asyncio.Queue.get on a non-empty queue: the oldest entry is removed and
\* returned
QueueGet(q) == [item |-> Head(q), rest |-> Tail(q)]

\* add_command that arms the grace period for every motion command
AddCommand_GraceOnAnyMove(q, ga, ge, t, item) ==
    IF item.name = "stop"
    THEN [queue |-> QueuePut(<<>>, item),
          graceActive |-> FALSE, graceEnd |-> ge,
          drained |-> {q[i].id : i \in 1..Len(q)}]
    ELSE [queue |-> QueuePut(q, item),
          graceActive |-> TRUE, graceEnd |-> t + GRACE_PERIOD_DURATION,
          drained |-> {}]

\* add_command that ends the grace period when another motion is submitted
AddCommand_MotionEndsGrace(q, ga, ge, t, item) ==
    IF item.name = "stop"
    THEN [queue |-> QueuePut(DrainQueue(q), item),
          graceActive |-> FALSE, graceEnd |-> ge,
          drained |-> {q[i].id : i \in 1..Len(q)}]
    ELSE IF item.name = "move_back"
    THEN [queue |-> QueuePut(q, item),
          graceActive |-> TRUE, graceEnd |-> t + GRACE_PERIOD_DURATION,
          drained |-> {}]
    ELSE [queue |-> QueuePut(q, item),
          graceActive |-> FALSE, graceEnd |-> ge,
          drained |-> {}]

\* add_command whose stop branch enqueues first and drains afterwards
AddCommand_PutThenDrain(q, ga, ge, t, item) ==
    IF item.name = "stop"
    THEN [queue |-> DrainQueue(QueuePut(q, item)),
          graceActive |-> FALSE, graceEnd |-> ge,
          drained |-> {q[i].id : i \in 1..Len(q)}]
    ELSE IF item.name = "move_back"
    THEN [queue |-> QueuePut(q, item),
          graceActive |-> TRUE, graceEnd |-> t + GRACE_PERIOD_DURATION,
          drained |-> {}]
    ELSE [queue |-> QueuePut(q, item),
          graceActive |-> ga, graceEnd |-> ge,
          drained |-> {}]

\* add_command: [queue, graceActive, graceEnd, drained]
AddCommand(q, ga, ge, t, item) ==
    IF item.name = "stop"
    THEN [queue |-> QueuePut(DrainQueue(q), item),
          graceActive |-> FALSE, graceEnd |-> ge,
          drained |-> {q[i].id : i \in 1..Len(q)}]
    ELSE IF item.name = "move_back"
    THEN [queue |-> QueuePut(q, item),
          graceActive |-> TRUE, graceEnd |-> t + GRACE_PERIOD_DURATION,
          drained |-> {}]
    ELSE [queue |-> QueuePut(q, item),
          graceActive |-> ga, graceEnd |-> ge,
          drained |-> {}]

\* the obstacle test of the monitor loop (the commanded speed s is not used)
ObstacleDetected(dist, s) ==
    /\ dist.kind = "value"
    /\ dist.value # -1
    /\ 0 < dist.value
    /\ dist.value < DISTANCE_DETECTION_THRESHOLD

\* a loop body that ends every motion with the rotation's timed stop
RunCommand_TimedStop(name, d, s, det) ==
    IF name = "stop"
    THEN [pins |-> MotorStop(d).pins, duty |-> MotorStop(d).duty,
          detection |-> "on", pc |-> "idle"]
    ELSE IF ~HasAttr(name)
    THEN [pins |-> d.pins, duty |-> d.duty, detection |-> det, pc |-> "idle"]
    ELSE IF name \in MotionPrimitives
    THEN [pins |-> Primitive(name, d, s).pins,
          duty |-> Primitive(name, d, s).duty,
          detection |-> "off", pc |-> "hold"]
    ELSE [pins |-> d.pins, duty |-> ApplySpeed(s),
          detection |-> det, pc |-> "idle"]

\* a loop body whose stop branch leaves the detection flag alone
RunCommand_StopKeepsFlag(name, d, s, det) ==
    IF name \in {"turn_left", "turn_right"}
    THEN [pins |-> Primitive(name, d, s).pins,
          duty |-> Primitive(name, d, s).duty,
          detection |-> "off", pc |-> "hold"]
    ELSE IF name = "stop"
    THEN [pins |-> MotorStop(d).pins, duty |-> MotorStop(d).duty,
          detection |-> det, pc |-> "idle"]
    ELSE IF ~HasAttr(name)
    THEN [pins |-> d.pins, duty |-> d.duty, detection |-> det, pc |-> "idle"]
    ELSE IF name \in MotionPrimitives
    THEN [pins |-> Primitive(name, d, s).pins,
          duty |-> Primitive(name, d, s).duty,
          detection |-> det, pc |-> "idle"]
    ELSE [pins |-> d.pins, duty |-> ApplySpeed(s),
          detection |-> det, pc |-> "idle"]

\* the None that stop_threads puts into the queue
Sentinel == [id |-> 0, name |-> "None"]

\* a loop body without the try/except: an error in a command ends the loop
RunCommand_ErrorEndsLoop(name, d, s, det) ==
    IF name = Sentinel.name
    THEN [pins |-> d.pins, duty |-> d.duty, detection |-> det, pc |-> "done"]
    ELSE IF name \in {"turn_left", "turn_right"}
    THEN [pins |-> Primitive(name, d, s).pins,
          duty |-> Primitive(name, d, s).duty,
          detection |-> "off", pc |-> "hold"]
    ELSE IF name = "stop"
    THEN [pins |-> MotorStop(d).pins, duty |-> MotorStop(d).duty,
          detection |-> "on", pc |-> "idle"]
    ELSE IF ~HasAttr(name)
    THEN [pins |-> d.pins, duty |-> d.duty, detection |-> det, pc |-> "idle"]
    ELSE IF name \in RaisesWithoutArgs
    THEN [pins |-> d.pins, duty |-> d.duty, detection |-> det, pc |-> "done"]
    ELSE IF name \in MotionPrimitives
    THEN [pins |-> Primitive(name, d, s).pins,
          duty |-> Primitive(name, d, s).duty,
          detection |-> det, pc |-> "idle"]
    ELSE [pins |-> d.pins, duty |-> ApplySpeed(s),
          detection |-> det, pc |-> "idle"]

\* the body of _execute_commands_loop for one dequeued command, up to its
\* next suspension: [pins, duty, detection, pc].  None ends the loop; a call
\* that raises ends in the handler's sleep(0.1).  The last branch is
\* getattr(self.control, name)() for a name that is an attribute but no
\* motion primitive, here _apply_speed
RunCommand(name, d, s, det) ==
    IF name = Sentinel.name
    THEN [pins |-> d.pins, duty |-> d.duty, detection |-> det, pc |-> "done"]
    ELSE IF name \in {"turn_left", "turn_right"}
    THEN [pins |-> Primitive(name, d, s).pins,
          duty |-> Primitive(name, d, s).duty,
          detection |-> "off", pc |-> "hold"]
    ELSE IF name = "stop"
    THEN [pins |-> MotorStop(d).pins, duty |-> MotorStop(d).duty,
          detection |-> "on", pc |-> "idle"]
    ELSE IF ~HasAttr(name)
    THEN [pins |-> d.pins, duty |-> d.duty, detection |-> det, pc |-> "idle"]
    ELSE IF name \in RaisesWithoutArgs
    THEN [pins |-> d.pins, duty |-> d.duty, detection |-> det,
          pc |-> "errsleep"]
    ELSE IF name \in MotionPrimitives
    THEN [pins |-> Primitive(name, d, s).pins,
          duty |-> Primitive(name, d, s).duty,
          detection |-> det, pc |-> "idle"]
    ELSE [pins |-> d.pins, duty |-> ApplySpeed(s),
          detection |-> det, pc |-> "idle"]

\* "while self._running" at the top of the dispatcher loop, reached when an
\* iteration has ended without suspending: the loop is left once the flag
\* is false
LoopTop(pc, run) == IF pc = "idle" /\ ~run THEN "done" ELSE pc

\* the dispatcher tasks left once the loop is at position pc
TasksLeft(n, pc) == IF pc = "done" THEN n - 1 ELSE n

\* an end of hold after which the dispatcher never returns to get()
EndHold_StaysInHold(d) ==
    [pins |-> MotorStop(d).pins, duty |-> MotorStop(d).duty,
     detection |-> "on", pc |-> "hold"]

\* an end of hold that re-enables detection but forgets stop()
EndHold_NoStop(d) ==
    [pins |-> d.pins, duty |-> d.duty, detection |-> "on", pc |-> "idle"]

\* what follows the rotation's sleep(1): stop() and detection back on
EndHold(d) ==
    [pins |-> MotorStop(d).pins, duty |-> MotorStop(d).duty,
     detection |-> "on", pc |-> "idle"]

\* RobotDemos.__init__: no task, event clear.  task is the state of
\* _demo_task: "none", "ready" (created, not yet run), "sleeping" (in a
\* step's asyncio.sleep) or "done"; gen numbers the tasks in the order
\* start_demo created them, _demo_task being task gen; step and elapsed are
\* the position in the sequence and the sleeps made in the current step;
\* cancel tells that a wait_for that timed out has cancelled the task;
\* waits holds, for every stop_demo call suspended in wait_for, the number
\* of the task it passed to wait_for.
\* History: log is what task gen has submitted, started the outcome of the
\* last start_demo call, stopped the numbers of the tasks for which a
\* stop_demo call has returned True
NoDemo ==
    [task |-> "none", name |-> "none", gen |-> 0, step |-> 0, elapsed |-> 0,
     event |-> FALSE, cancel |-> FALSE, waits |-> <<>>, log |-> <<>>,
     started |-> "none", stopped |-> {}, nStart |-> 0, nStop |-> 0]

\* CameraStreamer.__init__: no device, not streaming, event clear, no
\* thread. cap is 0 for None, else the number of the VideoCapture object;
\* open is the set of VideoCapture objects still open; thr[i] is the
\* position of the i-th capture thread, _capture_thread being the last,
\* and rd[i] the VideoCapture object whose read() that thread is in.
\* History: ret is the result of the last start/stop call; failed tells
\* that a frame read has failed since the last start_camera_capture call
\* began to open a device; armed tells that start_camera_capture has
\* started a capture and returned True, that no frame read had failed by
\* then, and that since then stop_camera_capture was not called and no
\* frame read failed (a call that finds the stream running leaves it as it
\* is)
NoCam ==
    [streaming |-> FALSE, cap |-> 0, event |-> FALSE, frame |-> FALSE,
     open |-> {}, nOpen |-> 0, pc |-> "idle", thr |-> <<>>, rd |-> <<>>,
     ret |-> "none", failed |-> FALSE, armed |-> FALSE]

\* VADProcessor.__init__: not speaking, no start times, counters zero,
\* empty history. t is time.time() in milliseconds.
\* History: ended tells how the last speech segment ended ("valid" when
\* it lasted min_speech_duration_ms and was followed by
\* min_silence_duration_ms of silence, "short" when it was too brief),
\* spoke that speech has begun since construction or the last reset,
\* nCalls the number of process_frame calls
NoVad ==
    [is_speaking |-> FALSE, speech_start_time |-> <<>>,
     silence_start_time |-> <<>>, speech_frames |-> 0, silence_frames |-> 0,
     total_frames |-> 0, recent_results |-> <<>>, t |-> 0,
     result |-> [is_speech |-> FALSE, confidence |-> <<0, 1>>,
                 speech_duration_ms |-> 0, silence_duration_ms |-> 0],
     ended |-> "none", spoke |-> FALSE, nCalls |-> 0]

(* ------------------------------- Init --------------------------------- *)
\* MotorControl.__init__ followed by CommandExecutor.__init__: no task
\* exists yet; the two files hold one of the given contents
InitWith(stores, legacies, temperatures) ==
    \E st \in stores, lg \in legacies :
        LET loaded == LoadSpeed(st, lg)
        IN  /\ speed = Max(MIN_SPEED_LIMIT, loaded.speed)
            /\ store = loaded.store
            /\ detection = IF loaded.touched THEN "on" ELSE "unset"
            /\ sensorAttrs = loaded.touched
            /\ buffer = <<>>
            /\ pins = [pin \in Pins |-> LOW]
            /\ duty = [w \in Pwms |-> 0]
            /\ queue = <<>>
            /\ dispPC = "idle"
            /\ graceActive = FALSE
            /\ graceEnd = 0
            /\ now = 0
            /\ monPC = "top"
            /\ monResult = NoneResult
            /\ tickStop = FALSE
            /\ nTicks = 0
            /\ nSubmitted = 0
            /\ nSetSpeed = 0
            /\ executed = <<>>
            /\ cancelled = {}
            /\ lastExec = "none"
            /\ running = FALSE
            /\ cmdTasks = 0
            /\ monTasks = 0
            /\ evicted = <<>>
            /\ shutdown = "none"
            /\ host = [pc |-> "library", motor |-> TRUE, executor |-> TRUE]
            /\ demo = NoDemo
            /\ cam = NoCam
            /\ vad = NoVad
            /\ workPC = "none"
            /\ loopPC = "none"
            /\ agentDir = "none"
            /\ \E t \in temperatures :
                   sonar = [temperature |-> t, pulse_duration |-> 0,
                            distance |-> 0]

\* the same with the temperature of config.py
InitFrom(stores, legacies) ==
    InitWith(stores, legacies, {DEFAULT_TEMPERATURE})

Init == InitFrom(StoreInit, LegacyInit)

(* ------------------------------ actions ------------------------------- *)
\* start_threads that creates a task whether or not one exists
SpawnIfIdle_Always(n) == n + 1

\* "if task is None or task.done(): create_task(...)": n is the number of
\* tasks of one kind that exist and are not done
SpawnIfIdle(n) == IF n = 0 THEN 1 ELSE n

\* a collaborator awaits start_threads(); the model covers one life of the
\* executor, so it is not called once stop_threads has been.  create_task
\* does not run the new task: the dispatcher is "created" until the event
\* loop gives it its first turn
StartThreads ==
    /\ loopPC = "none"
    /\ shutdown = "none"
    /\ running' = TRUE
    /\ cmdTasks' = SpawnIfIdle(cmdTasks)
    /\ dispPC' = IF cmdTasks = 0 THEN "created" ELSE dispPC
    /\ monTasks' = SpawnIfIdle(monTasks)
    /\ UNCHANGED <<shutdown, auxVars, queue, driveVars, speed, store, sensorVars,
                   graceVars, now, monVars, nTicks, nSubmitted, nSetSpeed,
                   histVars, evicted>>

\* a collaborator awaits add_command(name)
Submit(name) ==
    /\ loopPC = "none"
    /\ nSubmitted < MaxCmds
    /\ LET r == AddCommand(queue, graceActive, graceEnd, now,
                           [id |-> nSubmitted + 1, name |-> name])
       IN  /\ queue' = r.queue
           /\ graceActive' = r.graceActive
           /\ graceEnd' = r.graceEnd
           /\ cancelled' = cancelled \cup (r.drained \ {0})
    /\ nSubmitted' = nSubmitted + 1
    /\ UNCHANGED <<taskVars, evicted,
                   dispPC, driveVars, speed, store, sensorVars, now, monVars,
                   nTicks, nSetSpeed, executed, lastExec>>

\* _execute_commands_loop, first turn of the task: "while self._running" is
\* tested before the first get(), so a task that stop_threads overtook ends
\* without reading the queue
DispatchBegin ==
    /\ loopPC = "none"
    /\ cmdTasks >= 1
    /\ dispPC = "created"
    /\ dispPC' = LoopTop("idle", running)
    /\ cmdTasks' = TasksLeft(cmdTasks, LoopTop("idle", running))
    /\ UNCHANGED <<running, monTasks, shutdown, auxVars, evicted, queue, driveVars,
                   speed, store, sensorVars, graceVars, now, monVars, nTicks,
                   nSubmitted, nSetSpeed, histVars>>

\* _execute_commands_loop: get() returns a command and the loop body runs up
\* to its next suspension (the sleep of a rotation, or the next get())
Dispatch ==
    /\ loopPC = "none"
    /\ cmdTasks >= 1
    /\ dispPC = "idle"
    /\ queue # <<>>
    /\ LET got == QueueGet(queue)
           cmd == got.item
           r == RunCommand(cmd.name, Drive, speed, detection)
       IN  /\ queue' = got.rest
           /\ executed' = IF cmd.id = 0 THEN executed ELSE Append(executed, cmd.id)
           /\ lastExec' = IF cmd = Sentinel THEN lastExec ELSE cmd.name
           /\ pins' = r.pins
           /\ duty' = r.duty
           /\ detection' = r.detection
           /\ dispPC' = LoopTop(r.pc, running)
           /\ cmdTasks' = TasksLeft(cmdTasks, LoopTop(r.pc, running))
    /\ UNCHANGED <<running, monTasks, shutdown, auxVars, evicted,
                   speed, store, sensorAttrs, buffer, graceVars, now, monVars,
                   nTicks, nSubmitted, nSetSpeed, cancelled>>

\* the rotation's sleep(1) is over
HoldEnd ==
    /\ loopPC = "none"
    /\ dispPC = "hold"
    /\ LET r == EndHold(Drive)
       IN  /\ pins' = r.pins
           /\ duty' = r.duty
           /\ detection' = r.detection
           /\ dispPC' = LoopTop(r.pc, running)
           /\ cmdTasks' = TasksLeft(cmdTasks, LoopTop(r.pc, running))
    /\ UNCHANGED <<running, monTasks, shutdown, auxVars, evicted,
                   queue, speed, store, sensorAttrs, buffer, graceVars, now,
                   monVars, nTicks, nSubmitted, nSetSpeed, histVars>>

\* the grace-period test at the top of _distance_monitor_loop
GraceUnexpired(ga, ge, t) == ga /\ t < ge

\* top of an iteration inside an unexpired grace period: sleep and continue
MonitorSkip ==
    /\ loopPC = "none"
    /\ running
    /\ monTasks >= 1
    /\ monPC = "top"
    /\ GraceUnexpired(graceActive, graceEnd, now)
    /\ monPC' = "sleeping"
    /\ UNCHANGED <<taskVars, evicted,
                   queue, dispPC, driveVars, speed, store, sensorVars,
                   graceVars, now, monResult, tickStop, nTicks, nSubmitted,
                   nSetSpeed, histVars>>

\* top of an iteration otherwise: clear an expired grace period and hand
\* measure_distance to the worker thread (nTicks is left to the caller)
MonitorStart ==
    /\ loopPC = "none"
    /\ running
    /\ monTasks >= 1
    /\ monPC = "top"
    /\ ~GraceUnexpired(graceActive, graceEnd, now)
    /\ graceActive' = FALSE
    /\ monPC' = "measuring"
    /\ workPC' = "L364"
    /\ monResult' = NoneResult
    /\ tickStop' = FALSE
    /\ UNCHANGED <<running, cmdTasks, monTasks, shutdown, host, sonar, demo,
                   periphVars, loopPC, agentDir, evicted,
                   queue, dispPC, driveVars, speed, store, sensorVars,
                   graceEnd, now, nSubmitted, nSetSpeed, histVars>>

\* MonitorStart for a bounded number of iterations
MonitorStartCounted ==
    /\ nTicks < MaxTicks
    /\ nTicks' = nTicks + 1
    /\ MonitorStart

\* the worker thread runs the next statement of the measure_distance call
\* handed to it, while the rangefinder reports e.  It holds no lock, so the
\* event-loop thread may run between any two of its statements.  When the
\* call returns or raises, the future the monitor awaits is completed
MeasureRun(e) ==
    /\ workPC \in MeasureLines
    /\ LET m == MeasureLine(workPC, detection, sensorAttrs, loopPC, buffer, e,
                            WholeCm)
       IN  /\ workPC' = m.pc
           /\ buffer' = m.buffer
           /\ evicted' = IF m.popped THEN <<Head(buffer)>> ELSE evicted
           /\ monResult' = IF m.pc = "none" THEN m.result ELSE monResult
           /\ monPC' = IF m.pc = "none" THEN "measured" ELSE monPC
    /\ UNCHANGED <<running, cmdTasks, monTasks, shutdown, host, sonar, demo,
                   periphVars, loopPC, agentDir,
                   queue, dispPC, driveVars, speed, store, detection,
                   sensorAttrs, graceVars, now, tickStop, nTicks, nSubmitted,
                   nSetSpeed, histVars>>

\* a monitor that calls control.stop() itself instead of submitting stop
MonitorResult_DirectStop ==
    /\ loopPC = "none"
    /\ monTasks >= 1
    /\ monPC = "measured"
    /\ IF ObstacleDetected(monResult, speed)
       THEN /\ pins' = MotorStop(Drive).pins
            /\ duty' = MotorStop(Drive).duty
            /\ tickStop' = TRUE
       ELSE UNCHANGED <<auxVars, pins, duty, tickStop>>
    /\ monPC' = "sleeping"
    /\ monResult' = NoneResult
    /\ UNCHANGED <<taskVars, evicted, queue, graceVars, cancelled,
                   dispPC, speed, store, sensorVars, now,
                   nTicks, nSubmitted, nSetSpeed, executed, lastExec>>

\* the monitor resumes with the result: add_command("stop") on an obstacle,
\* then sleep; the local dist is not read again
MonitorResult ==
    /\ loopPC = "none"
    /\ monTasks >= 1
    /\ monPC = "measured"
    /\ IF ObstacleDetected(monResult, speed)
       THEN LET r == AddCommand(queue, graceActive, graceEnd, now,
                                [id |-> 0, name |-> "stop"])
            IN  /\ queue' = r.queue
                /\ graceActive' = r.graceActive
                /\ graceEnd' = r.graceEnd
                /\ cancelled' = cancelled \cup (r.drained \ {0})
                /\ tickStop' = TRUE
       ELSE UNCHANGED <<auxVars, queue, graceActive, graceEnd, cancelled, tickStop>>
    /\ monPC' = "sleeping"
    /\ monResult' = NoneResult
    /\ UNCHANGED <<taskVars, evicted,
                   dispPC, driveVars, speed, store, sensorVars, now,
                   nTicks, nSubmitted, nSetSpeed, executed, lastExec>>

\* sleep(DISTANCE_MONITOR_INTERVAL) is over
MonitorWake ==
    /\ loopPC = "none"
    /\ monTasks >= 1
    /\ monPC = "sleeping"
    /\ monPC' = "top"
    /\ tickStop' = FALSE
    /\ UNCHANGED <<taskVars, evicted,
                   queue, dispPC, driveVars, speed, store, sensorVars,
                   graceVars, now, monResult, nTicks, nSubmitted,
                   nSetSpeed, histVars>>

\* MotorControl.set_speed(x) where one thread alone uses the object: clamp,
\* _apply_speed, _save_speed (nSetSpeed is left to the caller).  The
\* temperature assigned is DEFAULT_TEMPERATURE, the one the object has
SetSpeedCall(x) ==
    /\ LET safe_speed == ClampSpeed(x)
           saved == SaveSpeed(store, safe_speed)
       IN  /\ speed' = safe_speed
           /\ duty' = ApplySpeed(safe_speed)
           /\ store' = saved.store
           /\ IF saved.touched
              THEN /\ detection' = "on"
                   /\ sensorAttrs' = TRUE
                   /\ buffer' = <<>>
              ELSE UNCHANGED <<auxVars, detection, sensorAttrs, buffer>>
    /\ UNCHANGED <<taskVars, evicted,
                   queue, dispPC, pins, graceVars, now, monVars, nTicks,
                   nSubmitted, histVars>>

\* a collaborator calls MotorControl.set_speed(x) on the event-loop thread,
\* a bounded number of times: clamp, _apply_speed and the with block of
\* _save_speed, none of which the worker thread reads.  When the early
\* return is not taken the call goes on to the trailing assignments
SetSpeed(x) ==
    /\ loopPC = "none"
    /\ nSetSpeed < MaxSetSpeed
    /\ nSetSpeed' = nSetSpeed + 1
    /\ LET safe_speed == ClampSpeed(x)
           saved == SaveSpeed(store, safe_speed)
       IN  /\ speed' = safe_speed
           /\ duty' = ApplySpeed(safe_speed)
           /\ store' = saved.store
           /\ loopPC' = IF saved.touched THEN "L156" ELSE "none"
    /\ UNCHANGED <<running, cmdTasks, monTasks, shutdown, host, sonar, demo,
                   periphVars, workPC, agentDir, evicted,
                   queue, dispPC, pins, sensorVars, graceVars, now, monVars,
                   nTicks, nSubmitted, histVars>>

\* the next of the trailing assignments of _save_speed: the flag (156), the
\* temperature (157), a new empty distance_buffer (158), buffer_size (159).
\* The call is synchronous, so no coroutine runs before the last of them;
\* the worker thread may run between any two
SetSpeedLine ==
    /\ loopPC \in SaveLines
    /\ agentDir = "none"
    /\ detection' = IF loopPC = "L156" THEN "on" ELSE detection
    /\ buffer' = IF loopPC = "L158" THEN <<>> ELSE buffer
    /\ sensorAttrs' = (sensorAttrs \/ loopPC = "L159")
    /\ loopPC' = CASE loopPC = "L156" -> "L157"
                   [] loopPC = "L157" -> "L158"
                   [] loopPC = "L158" -> "L159"
                   [] loopPC = "L159" -> "none"
    /\ UNCHANGED <<running, cmdTasks, monTasks, shutdown, host, sonar, demo,
                   periphVars, workPC, agentDir, evicted,
                   queue, dispPC, driveVars, speed, store, graceVars, now,
                   monVars, nTicks, nSubmitted, nSetSpeed, histVars>>

\* the wall clock advances
Advance(d) ==
    /\ now + d <= MaxTime
    /\ now' = now + d
    /\ UNCHANGED <<taskVars, evicted,
                   queue, dispPC, driveVars, speed, store, sensorVars,
                   graceVars, monVars, nTicks, nSubmitted, nSetSpeed, histVars>>

Next ==
    \/ StartThreads
    \/ \E name \in Commands : Submit(name)
    \/ DispatchBegin
    \/ Dispatch
    \/ HoldEnd
    \/ MonitorSkip
    \/ MonitorStartCounted
    \/ \E e \in Echoes : MeasureRun(e)
    \/ MonitorResult
    \/ MonitorWake
    \/ \E x \in LoopSpeeds : SetSpeed(x)
    \/ SetSpeedLine
    \/ \E d \in TimeSteps : Advance(d)

Spec == Init /\ [][Next]_vars

\* the rotation's sleep always ends: the event loop resumes the dispatcher
FairSpec == Spec /\ WF_vars(HoldEnd) /\ WF_vars(SetSpeedLine)

\* The queue scenario: collaborators submit one command of each kind the
\* dispatcher treats differently (a continuous motion, a rotation, stop);
\* everything else is as in Next.
LiveNext ==
    \/ StartThreads
    \/ \E name \in LiveCommands : Submit(name)
    \/ DispatchBegin
    \/ Dispatch
    \/ HoldEnd
    \/ MonitorSkip
    \/ MonitorStartCounted
    \/ \E e \in Echoes : MeasureRun(e)
    \/ MonitorResult
    \/ MonitorWake
    \/ \E x \in LoopSpeeds : SetSpeed(x)
    \/ SetSpeedLine
    \/ \E d \in TimeSteps : Advance(d)

\* both awaits of the dispatcher complete: get() returns when the queue is
\* not empty, and the rotation's sleep ends
LiveSpec ==
    /\ Init
    /\ [][LiveNext]_vars
    /\ WF_vars(DispatchBegin)
    /\ WF_vars(Dispatch)
    /\ WF_vars(HoldEnd)
    /\ WF_vars(SetSpeedLine)

\* The obstacle scenario: the rangefinder reports HazardEcho at every
\* measurement and the monitor loop runs without a bound on its iterations.
MonitorStartFree == MonitorStart /\ UNCHANGED nTicks

ObstacleNext ==
    \/ StartThreads
    \/ \E name \in Commands : Submit(name)
    \/ DispatchBegin
    \/ Dispatch
    \/ HoldEnd
    \/ MonitorSkip
    \/ MonitorStartFree
    \/ MeasureRun(HazardEcho)
    \/ MonitorResult
    \/ MonitorWake
    \/ \E x \in LoopSpeeds : SetSpeed(x)
    \/ SetSpeedLine
    \/ \E d \in TimeSteps : Advance(d)

\* the event loop resumes every coroutine whose await has completed, and the
\* worker thread runs every measurement handed to it
ObstacleSpec ==
    /\ InitFrom(StoreInit, ObstacleLegacy)
    /\ [][ObstacleNext]_vars
    /\ WF_vars(DispatchBegin)
    /\ WF_vars(Dispatch)
    /\ WF_vars(HoldEnd)
    /\ WF_vars(SetSpeedLine)
    /\ WF_vars(MonitorSkip)
    /\ WF_vars(MonitorStartFree)
    /\ WF_vars(MeasureRun(HazardEcho))
    /\ WF_vars(MonitorResult)
    /\ WF_vars(MonitorWake)

\* The sensor scenario: MotorControl used on its own.  measure_distance is
\* called directly (as the agent's distance tool does), the flag is assigned
\* through its property and set_speed is called any number of times.
MeasureCall(e) ==
    /\ LET m == MeasureDistance(detection, sensorAttrs, buffer, e, WholeCm)
       IN  /\ monResult' = m.result
           /\ buffer' = m.buffer
           /\ evicted' = Evicted(buffer, m.pushed, evicted)
    /\ UNCHANGED <<taskVars, queue, dispPC, driveVars, speed, store,
                   detection, sensorAttrs, graceVars, now, monPC, tickStop,
                   nTicks, nSubmitted, nSetSpeed, histVars>>

\* distance_detection_enabled = v
SetDetection(v) ==
    /\ detection' = v
    /\ UNCHANGED <<taskVars, evicted, queue, dispPC, driveVars, speed, store,
                   sensorAttrs, buffer, graceVars, now, monVars, nTicks,
                   nSubmitted, nSetSpeed, histVars>>

SetSpeedFree(x) == SetSpeedCall(x) /\ UNCHANGED nSetSpeed

SensorNext ==
    \/ \E e \in SensorEchoes : MeasureCall(e)
    \/ \E v \in FlagValues : SetDetection(v)
    \/ \E x \in SpeedInputs : SetSpeedFree(x)

SensorSpec == Init /\ [][SensorNext]_vars

\* the handler's sleep(0.1) after a command raised is over: back to the top
\* of the loop
ErrWake ==
    /\ loopPC = "none"
    /\ dispPC = "errsleep"
    /\ dispPC' = LoopTop("idle", running)
    /\ cmdTasks' = TasksLeft(cmdTasks, LoopTop("idle", running))
    /\ UNCHANGED <<running, monTasks, shutdown, auxVars, evicted, queue, driveVars,
                   speed, store, sensorVars, graceVars, now, monVars, nTicks,
                   nSubmitted, nSetSpeed, histVars>>

\* "while self._running" at the top of the monitor loop finds the flag false
MonitorExit ==
    /\ loopPC = "none"
    /\ ~running
    /\ monTasks >= 1
    /\ monPC = "top"
    /\ monTasks' = monTasks - 1
    /\ UNCHANGED <<running, cmdTasks, shutdown, auxVars, evicted, queue, dispPC,
                   driveVars, speed, store, sensorVars, graceVars, now,
                   monVars, nTicks, nSubmitted, nSetSpeed, histVars>>

\* stop_threads up to its first suspension: the flag is cleared and None is
\* put behind whatever the queue holds.  The application calls it once, at
\* the end of its life
StopThreads ==
    /\ loopPC = "none"
    /\ shutdown = "none"
    /\ running' = FALSE
    /\ queue' = QueuePut(queue, Sentinel)
    /\ shutdown' = "joining"
    /\ UNCHANGED <<auxVars, cmdTasks, monTasks, evicted, dispPC, driveVars, speed,
                   store, sensorVars, graceVars, now, monVars, nTicks,
                   nSubmitted, nSetSpeed, histVars>>

\* monitor_task.cancel(): the monitor runs no further step; a measurement
\* the worker thread has not finished stays with the worker
CancelMonitor ==
    /\ monTasks' = 0
    /\ monPC' = IF monPC = "measuring" THEN "measuring" ELSE "top"
    /\ monResult' = NoneResult
    /\ tickStop' = FALSE

\* stop_threads resumes from wait_for, which returns because the dispatcher
\* task is done (or was never created) or raises TimeoutError once the
\* cancelled dispatcher has ended; the monitor is cancelled and awaited
ShutdownJoin ==
    /\ loopPC = "none"
    /\ shutdown = "joining"
    /\ cmdTasks = 0
    /\ CancelMonitor
    /\ shutdown' = "cancelling"
    /\ UNCHANGED <<auxVars, running, cmdTasks, evicted, queue, dispPC, driveVars,
                   speed, store, sensorVars, graceVars, now, nTicks,
                   nSubmitted, nSetSpeed, histVars>>

\* wait_for times out after 1.0 s while the dispatcher is still in a
\* rotation's sleep(1): stop_threads cancels the dispatcher task and is
\* suspended again until that task has ended.  The task is cancelled inside
\* the sleep, so the lines after it do not run; the monitor is not touched
\* yet and may run before stop_threads resumes (ShutdownJoin)
ShutdownTimeout ==
    /\ loopPC = "none"
    /\ shutdown = "joining"
    /\ cmdTasks >= 1
    /\ dispPC = "hold"
    /\ cmdTasks' = cmdTasks - 1
    /\ dispPC' = "done"
    /\ UNCHANGED <<auxVars, running, monTasks, shutdown, evicted, queue,
                   driveVars, speed, store, sensorVars, graceVars, now,
                   monVars, nTicks, nSubmitted, nSetSpeed, histVars>>

\* a shutdown that releases the hardware without stopping the motors
ShutdownFinish_NoStop ==
    /\ loopPC = "none"
    /\ shutdown = "cancelling"
    /\ shutdown' = "done"
    /\ UNCHANGED <<auxVars, running, cmdTasks, monTasks, evicted, queue, dispPC,
                   driveVars, speed, store, sensorVars, graceVars, now,
                   monVars, nTicks, nSubmitted, nSetSpeed, histVars>>

\* the rest of stop_threads: control.stop() and control.cleanup(), which
\* stops once more before releasing the PWM channels and the pins
ShutdownFinish ==
    /\ loopPC = "none"
    /\ shutdown = "cancelling"
    /\ pins' = MotorStop(MotorStop(Drive)).pins
    /\ duty' = MotorStop(MotorStop(Drive)).duty
    /\ shutdown' = "done"
    /\ UNCHANGED <<auxVars, running, cmdTasks, monTasks, evicted, queue, dispPC,
                   speed, store, sensorVars, graceVars, now, monVars, nTicks,
                   nSubmitted, nSetSpeed, histVars>>

\* The shutdown scenario: the life of the executor from start_threads to the
\* end of stop_threads, with the commands of ShutdownCommands.
ShutdownNext ==
    \/ StartThreads
    \/ \E name \in ShutdownCommands : Submit(name)
    \/ DispatchBegin
    \/ Dispatch
    \/ HoldEnd
    \/ MonitorStartCounted
    \/ \E e \in Echoes : MeasureRun(e)
    \/ MonitorResult
    \/ MonitorWake
    \/ MonitorExit
    \/ \E x \in LoopSpeeds : SetSpeed(x)
    \/ SetSpeedLine
    \/ StopThreads
    \/ ShutdownJoin
    \/ ShutdownTimeout
    \/ ShutdownFinish

\* the event loop resumes every coroutine whose await has completed, and
\* wait_for's timeout fires
ShutdownSpec ==
    /\ Init
    /\ [][ShutdownNext]_vars
    /\ WF_vars(DispatchBegin)
    /\ WF_vars(Dispatch)
    /\ WF_vars(HoldEnd)
    /\ WF_vars(SetSpeedLine)
    /\ WF_vars(ShutdownJoin)
    /\ WF_vars(ShutdownFinish)

\* MonitorStart without a bound on the iterations of the while loop; nTicks
\* counts them as far as MaxTicks + 1
MonitorStartNext ==
    /\ nTicks' = Min(nTicks + 1, MaxTicks + 1)
    /\ MonitorStart

\* the worker thread runs the next statement of measure_distance, whatever
\* the rangefinder reports
MeasureStep == \E e \in Echoes : MeasureRun(e)

\* The failure scenario: commands that raise in the dispatcher and
\* measurements that fail in the monitor, while both loops run, tick after
\* tick.
FaultNext ==
    \/ StartThreads
    \/ \E name \in FaultCommands : Submit(name)
    \/ DispatchBegin
    \/ Dispatch
    \/ ErrWake
    \/ MonitorStartNext
    \/ MeasureStep
    \/ MonitorResult
    \/ MonitorWake

\* the event loop resumes every coroutine whose await has completed
FaultSpec ==
    /\ Init
    /\ [][FaultNext]_vars
    /\ WF_vars(DispatchBegin)
    /\ WF_vars(Dispatch)
    /\ WF_vars(ErrWake)
    /\ WF_vars(MonitorStartNext)
    /\ WF_vars(MeasureStep)
    /\ WF_vars(MonitorResult)
    /\ WF_vars(MonitorWake)

\* The collaborator scenario: besides the routes, demos and voice service,
\* which submit commands, the LLM agent executes the tool calls of
\* process_command on the MotorControl it was given.
\* the "direction" values of the agent's move tool and the method each one
\* resolves to
AgentMethod ==
    [forward    |-> "move_forward",
     back       |-> "move_back",
     left       |-> "move_left",
     right      |-> "move_right",
     turn_left  |-> "turn_left",
     turn_right |-> "turn_right"]

\* tool call "move", up to the end of the with block of _save_speed: clamp,
\* _apply_speed and the store.  When the early return is taken the call goes
\* straight on to the primitive and enters time.sleep, which blocks the
\* event-loop thread with the wheels driven
AgentMove(direction, x) ==
    /\ loopPC = "none"
    /\ LET safe_speed == ClampSpeed(x)
           saved == SaveSpeed(store, safe_speed)
           applied == [pins |-> pins, duty |-> ApplySpeed(safe_speed)]
           moving == Primitive(AgentMethod[direction], applied, safe_speed)
       IN  /\ speed' = safe_speed
           /\ store' = saved.store
           /\ loopPC' = IF saved.touched THEN "L156" ELSE "sleep"
           /\ agentDir' = IF saved.touched THEN direction ELSE "none"
           /\ pins' = IF saved.touched THEN pins ELSE moving.pins
           /\ duty' = IF saved.touched THEN applied.duty ELSE moving.duty
    /\ UNCHANGED <<running, cmdTasks, monTasks, shutdown, host, sonar, demo,
                   periphVars, workPC, evicted, queue, dispPC, sensorVars,
                   graceVars, now, monVars,
                   nTicks, nSubmitted, nSetSpeed, histVars>>

\* the next of the trailing assignments of _save_speed inside the agent's
\* move; after the last one set_speed returns, the primitive is called and
\* the thread enters time.sleep
AgentMoveLine ==
    /\ loopPC \in SaveLines
    /\ agentDir # "none"
    /\ detection' = IF loopPC = "L156" THEN "on" ELSE detection
    /\ buffer' = IF loopPC = "L158" THEN <<>> ELSE buffer
    /\ sensorAttrs' = (sensorAttrs \/ loopPC = "L159")
    /\ loopPC' = CASE loopPC = "L156" -> "L157"
                   [] loopPC = "L157" -> "L158"
                   [] loopPC = "L158" -> "L159"
                   [] loopPC = "L159" -> "sleep"
    /\ agentDir' = IF loopPC = "L159" THEN "none" ELSE agentDir
    /\ LET moving == Primitive(AgentMethod[agentDir], Drive, speed)
       IN  /\ pins' = IF loopPC = "L159" THEN moving.pins ELSE pins
           /\ duty' = IF loopPC = "L159" THEN moving.duty ELSE duty
    /\ UNCHANGED <<running, cmdTasks, monTasks, shutdown, host, sonar, demo,
                   periphVars, workPC, evicted, queue, dispPC, speed, store,
                   graceVars, now, monVars, nTicks, nSubmitted, nSetSpeed,
                   histVars>>

\* time.sleep returns and the agent calls stop(); no coroutine has run since
\* the move began, the worker thread may have
AgentMoveEnd ==
    /\ loopPC = "sleep"
    /\ pins' = MotorStop(Drive).pins
    /\ duty' = MotorStop(Drive).duty
    /\ loopPC' = "none"
    /\ UNCHANGED <<running, cmdTasks, monTasks, shutdown, host, sonar, demo,
                   periphVars, workPC, agentDir, evicted, queue, dispPC,
                   speed, store, sensorVars, graceVars, now, monVars, nTicks,
                   nSubmitted, nSetSpeed, histVars>>

\* tool call "stop": motor.stop()
AgentStop ==
    /\ loopPC = "none"
    /\ pins' = MotorStop(Drive).pins
    /\ duty' = MotorStop(Drive).duty
    /\ UNCHANGED <<taskVars, evicted, queue, dispPC, speed, store, sensorVars,
                   graceVars, now, monVars, nTicks, nSubmitted, nSetSpeed,
                   histVars>>

\* tool call "get_status": motor.measure_distance() on the event-loop
\* thread, the result goes into the reply text.  The call is made when the
\* thread is in no other call, and each step is its next statement; the
\* worker thread may run between any two
AgentStatus(e) ==
    /\ loopPC \in {"none"} \cup MeasureLines
    /\ LET m == MeasureLine(IF loopPC = "none" THEN "L364" ELSE loopPC,
                            detection, sensorAttrs, "none", buffer, e, WholeCm)
       IN  /\ loopPC' = m.pc
           /\ buffer' = m.buffer
           /\ evicted' = IF m.popped THEN <<Head(buffer)>> ELSE evicted
    /\ UNCHANGED <<running, cmdTasks, monTasks, shutdown, host, sonar, demo,
                   periphVars, workPC, agentDir, queue, dispPC, driveVars, speed,
                   store,
                   detection, sensorAttrs, graceVars, now, monVars, nTicks,
                   nSubmitted, nSetSpeed, histVars>>

CollabNext ==
    \/ StartThreads
    \/ \E name \in LiveCommands : Submit(name)
    \/ DispatchBegin
    \/ Dispatch
    \/ HoldEnd
    \/ MonitorSkip
    \/ MonitorStartCounted
    \/ \E e \in Echoes : MeasureRun(e)
    \/ MonitorResult
    \/ MonitorWake
    \/ \E x \in LoopSpeeds : SetSpeed(x)
    \/ SetSpeedLine
    \/ \E direction \in DOMAIN AgentMethod, x \in LoopSpeeds :
          AgentMove(direction, x)
    \/ AgentMoveLine
    \/ AgentMoveEnd
    \/ AgentStop
    \/ AgentStatus(HazardEcho)
    \/ \E d \in TimeSteps : Advance(d)

CollabSpec == Init /\ [][CollabNext]_vars

\* The drivetrain scenario: MotorControl used on its own, over any content
\* of the two files.  Primitives and stop are called directly (lastExec
\* records the call made last), set_speed is called any number of times, and
\* the program is restarted over the store it left.
CallPrimitive(name) ==
    /\ pins' = Primitive(name, Drive, speed).pins
    /\ duty' = Primitive(name, Drive, speed).duty
    /\ lastExec' = name
    /\ UNCHANGED <<taskVars, evicted, queue, dispPC, speed, store, sensorVars,
                   graceVars, now, monVars, nTicks, nSubmitted, nSetSpeed,
                   executed, cancelled>>

CallStop ==
    /\ pins' = MotorStop(Drive).pins
    /\ duty' = MotorStop(Drive).duty
    /\ lastExec' = "stop"
    /\ UNCHANGED <<taskVars, evicted, queue, dispPC, speed, store, sensorVars,
                   graceVars, now, monVars, nTicks, nSubmitted, nSetSpeed,
                   executed, cancelled>>

\* control_left_front(mode) .. control_right_back(mode): one wheel's pins
ControlWheel(w, mode) ==
    /\ pins' = SetMotorState(pins, WheelPins[w][1], WheelPins[w][2], mode)
    /\ lastExec' = w
    /\ UNCHANGED <<taskVars, evicted, queue, dispPC, duty, speed, store,
                   sensorVars, graceVars, now, monVars, nTicks, nSubmitted,
                   nSetSpeed, executed, cancelled>>

\* the speed a MotorControl constructed over runtime_state.json st reports
\* (a settings.json that is still present then is malformed, and is not read
\* once runtime_state.json exists)
FreshSpeed(st) == Max(MIN_SPEED_LIMIT, LoadSpeed(st, <<>>).speed)

\* the process is restarted: a new MotorControl is constructed over the
\* store, with none of the attributes _save_speed creates
Reconstruct ==
    /\ speed' = FreshSpeed(store)
    /\ pins' = [pin \in Pins |-> LOW]
    /\ duty' = [w \in Pwms |-> 0]
    /\ detection' = "unset"
    /\ sensorAttrs' = FALSE
    /\ buffer' = <<>>
    /\ lastExec' = "none"
    /\ UNCHANGED <<taskVars, evicted, queue, dispPC, store, graceVars, now,
                   monVars, nTicks, nSubmitted, nSetSpeed, executed,
                   cancelled>>

MotorNext ==
    \/ \E name \in MotionPrimitives : CallPrimitive(name)
    \/ CallStop
    \/ \E w \in Wheels, mode \in {MODE_FORWARD, MODE_BACK, MODE_STOP} :
          ControlWheel(w, mode)
    \/ \E x \in MotorSpeeds : SetSpeedFree(x)
    \/ Reconstruct

MotorSpec == InitFrom(MotorStores, MotorLegacies) /\ [][MotorNext]_vars

(* ----------------- hardware writes that raise (core.py) --------------- *)
\* the PWM channel of each wheel (pwm_lf, pwm_lb, pwm_rb, pwm_rf)
WheelPwm ==
    [left_front  |-> PWM_LF,
     left_back   |-> PWM_LB,
     right_back  |-> PWM_RB,
     right_front |-> PWM_RF]

\* a wheel turns when it is energized and its channel has a duty cycle
Turning(d) ==
    \E w \in Wheels : Energized(d.pins, w) /\ d.duty[WheelPwm[w]] > 0

\* the order of the pin writes of stop() and of a primitive's four
\* _control_motor_pair calls
PinOrder == <<IN1, IN2, IN3, IN4, IN5, IN6, IN7, IN8>>
\* the order of the ChangeDutyCycle calls of stop() (self.pwms)
StopPwmOrder == <<PWM_LF, PWM_LB, PWM_RB, PWM_RF>>
\* the order of the ChangeDutyCycle calls of _apply_speed
ApplyPwmOrder == <<PWM_LF, PWM_LB, PWM_RF, PWM_RB>>

\* the drivetrain when an operation that would leave it as target raises in
\* its write number k + 1: the first k writes (pins in PinOrder, then the
\* channels in pwmOrder) are done, the others are not
PartialWrites(d, target, pwmOrder, k) ==
    [pins |-> [pin \in Pins |->
                 IF \E i \in 1 .. Min(k, 8) : PinOrder[i] = pin
                 THEN target.pins[pin] ELSE d.pins[pin]],
     duty |-> [ch \in Pwms |->
                 IF \E i \in 1 .. Max(k - 8, 0) : pwmOrder[i] = ch
                 THEN target.duty[ch] ELSE d.duty[ch]]]

\* the rotation branch when the primitive raises after k writes: detection
\* has been disabled, the handler logs and sleeps 0.1 s
RunRotationRaising(name, d, s, k) ==
    LET part == PartialWrites(d, Primitive(name, d, s), ApplyPwmOrder, k)
    IN  [pins |-> part.pins, duty |-> part.duty, detection |-> "off",
         pc |-> "errsleep"]

\* the end of a hold when stop() raises after k writes: the assignment that
\* follows it is not reached
EndHoldRaising(d, det, k) ==
    LET part == PartialWrites(d, MotorStop(d), StopPwmOrder, k)
    IN  [pins |-> part.pins, duty |-> part.duty, detection |-> det,
         pc |-> "errsleep"]

\* the dispatcher takes a rotation and a hardware write of the primitive
\* raises
DispatchRaising(k) ==
    /\ loopPC = "none"
    /\ cmdTasks >= 1
    /\ dispPC = "idle"
    /\ queue # <<>>
    /\ Head(queue).name \in {"turn_left", "turn_right"}
    /\ LET got == QueueGet(queue)
           cmd == got.item
           r == RunRotationRaising(cmd.name, Drive, speed, k)
       IN  /\ queue' = got.rest
           /\ executed' = Append(executed, cmd.id)
           /\ lastExec' = cmd.name
           /\ pins' = r.pins
           /\ duty' = r.duty
           /\ detection' = r.detection
           /\ dispPC' = r.pc
    /\ UNCHANGED <<taskVars, evicted, speed, store, sensorAttrs, buffer,
                   graceVars, now, monVars, nTicks, nSubmitted, nSetSpeed,
                   cancelled>>

\* the rotation's sleep(1) is over and a hardware write of stop() raises
HoldEndRaising(k) ==
    /\ loopPC = "none"
    /\ dispPC = "hold"
    /\ LET r == EndHoldRaising(Drive, detection, k)
       IN  /\ pins' = r.pins
           /\ duty' = r.duty
           /\ detection' = r.detection
           /\ dispPC' = r.pc
    /\ UNCHANGED <<taskVars, evicted, queue, speed, store, sensorAttrs, buffer,
                   graceVars, now, monVars, nTicks, nSubmitted, nSetSpeed,
                   histVars>>

\* The hardware-fault scenario: rotations and stops while any hardware
\* write of a rotation may raise, beside the monitor task that
\* start_threads creates with the dispatcher (no move_back is submitted, so
\* no grace period begins and the monitor never skips an iteration).
RotationFaultNext ==
    \/ StartThreads
    \/ \E name \in RotationCommands : Submit(name)
    \/ DispatchBegin
    \/ Dispatch
    \/ HoldEnd
    \/ ErrWake
    \/ \E k \in FaultPoints : DispatchRaising(k)
    \/ \E k \in FaultPoints : HoldEndRaising(k)
    \/ MonitorStartNext
    \/ MeasureStep
    \/ MonitorResult
    \/ MonitorWake

RotationFaultSpec == Init /\ [][RotationFaultNext]_vars

(* ------------------- ranging (core.py, measure_distance) --------------- *)
\* a speed of sound that ignores the temperature (343 m/s)
SpeedOfSound_Fixed(t) == 343000

\* speed_of_sound = 331.3 + 0.606 * temperature, in mm/s
SpeedOfSound(t) == 331300 + 606 * t

\* distance = pulse_duration * speed_of_sound / 2 * 100: the pulse is in
\* units of 10 microseconds and the speed in mm/s, so their product is the
\* round trip in units of 10 nm and its half the distance in millionths of
\* a centimetre
RawDistance(pulse, t) == (pulse * SpeedOfSound(t)) \div 2

\* measure_distance called directly while the echo pin is high for the given
\* duration: the distance computed from the pulse is the reading that enters
\* the buffer
MeasurePulse(pulse) ==
    /\ LET m == MeasureDistance(detection, sensorAttrs, buffer,
                                RawDistance(pulse, sonar.temperature),
                                MicroCm)
       IN  /\ monResult' = m.result
           /\ buffer' = m.buffer
           /\ evicted' = Evicted(buffer, m.pushed, evicted)
           /\ sonar' = IF m.pushed
                       THEN [sonar EXCEPT
                               !.pulse_duration = pulse,
                               !.distance = RawDistance(pulse, sonar.temperature)]
                       ELSE sonar
    /\ UNCHANGED <<running, cmdTasks, monTasks, shutdown, host, demo, periphVars, threadVars,
                   queue,
                   dispPC, driveVars, speed, store, detection, sensorAttrs,
                   graceVars,
                   now, monPC, tickStop, nTicks, nSubmitted, nSetSpeed,
                   histVars>>

\* The ranging scenario: the sensor scenario with the echo given as a pulse
\* duration, under each configured temperature.
RangeNext ==
    \/ \E pulse \in Pulses : MeasurePulse(pulse)
    \/ \E v \in FlagValues : SetDetection(v)
    \/ \E x \in SpeedInputs : SetSpeedFree(x)

RangeSpec == InitWith(StoreInit, LegacyInit, Temperatures) /\ [][RangeNext]_vars

(* ------------------------ demos (robot_demos.py) ----------------------- *)
\* the (command, duration) steps each _run_<name>_demo method builds, the
\* durations in hundredths of a second
DemoSequence ==
    [
     digit_0 |-> <<<<"move_forward", 150>>, <<"move_right", 150>>,
                   <<"move_back", 150>>, <<"move_left", 150>>,
                   <<"move_forward", 75>>>>,
     digit_1 |-> <<<<"move_forward", 100>>, <<"move_right", 100>>,
                   <<"move_back", 100>>, <<"move_left", 100>>,
                   <<"move_back", 100>>, <<"move_forward", 100>>,
                   <<"move_right", 100>>, <<"move_back", 100>>,
                   <<"move_left", 100>>, <<"move_forward", 50>>>>,
     digit_2 |-> <<<<"move_right", 100>>, <<"move_left_back", 150>>,
                   <<"move_right", 100>>, <<"move_forward", 50>>,
                   <<"move_left", 50>>>>,
     digit_3 |-> <<<<"move_right", 100>>, <<"move_left_back", 75>>,
                   <<"move_left", 50>>, <<"move_right", 50>>,
                   <<"move_left_back", 75>>, <<"move_back", 50>>,
                   <<"move_left", 50>>>>,
     digit_4 |-> <<<<"move_right_back", 150>>, <<"move_right", 100>>,
                   <<"move_forward", 150>>, <<"move_back", 50>>,
                   <<"move_left", 50>>>>,
     digit_5 |-> <<<<"move_right", 100>>, <<"move_back", 100>>,
                   <<"move_left_back", 75>>, <<"move_left", 100>>,
                   <<"move_forward", 50>>>>,
     digit_6 |-> <<<<"move_left", 100>>, <<"move_back", 100>>,
                   <<"move_right", 100>>, <<"move_forward", 100>>,
                   <<"move_left", 50>>>>,
     digit_7 |-> <<<<"move_right", 150>>, <<"move_left_back", 200>>,
                   <<"move_forward", 75>>, <<"move_left", 75>>>>,
     digit_8 |-> <<<<"move_forward", 100>>, <<"move_right", 100>>,
                   <<"move_back", 100>>, <<"move_left", 100>>,
                   <<"move_back", 100>>, <<"move_forward", 100>>,
                   <<"move_right", 100>>, <<"move_back", 100>>,
                   <<"move_left", 100>>, <<"move_forward", 50>>>>,
     digit_9 |-> <<<<"move_right", 100>>, <<"move_back", 100>>,
                   <<"move_left", 100>>, <<"move_forward", 100>>,
                   <<"move_back", 100>>, <<"move_left", 50>>>>,
     crab_walk |-> <<<<"move_left", 40>>, <<"move_right", 40>>,
                     <<"move_left", 40>>, <<"move_right", 40>>,
                     <<"move_left", 40>>, <<"move_right", 40>>,
                     <<"move_left", 40>>, <<"move_right", 40>>,
                     <<"move_left", 40>>, <<"move_right", 40>>>>,
     box_step |-> <<<<"move_forward", 150>>, <<"move_left", 150>>,
                    <<"move_back", 150>>, <<"move_right", 150>>>>,
     s_curve |-> <<<<"move_forward", 120>>, <<"turn_left", 70>>,
                   <<"move_forward", 120>>, <<"turn_right", 70>>,
                   <<"move_forward", 120>>>>,
     z_curve |-> <<<<"move_forward", 150>>, <<"turn_right", 100>>,
                   <<"move_forward", 150>>, <<"turn_left", 100>>,
                   <<"move_forward", 150>>>>,
     spin_fast |-> <<<<"turn_left", 80>>, <<"turn_right", 80>>,
                     <<"turn_left", 80>>, <<"turn_right", 80>>,
                     <<"turn_left", 80>>, <<"turn_right", 80>>>>]

\* the names for which a _run_<name>_demo method exists
DemoNames == DOMAIN DemoSequence

\* the methods among them that are coroutine functions (async def); calling
\* any other one returns None
CoroutineDemos == {"digit_0", "digit_1", "crab_walk"}

\* the names passed to start_demo: every demo and a name with no method
DemoRequests == DemoNames \cup {"moonwalk"}

\* the number of asyncio.sleep(0.1) calls the wait loop of a step makes for
\* each duration: "elapsed += 0.1" is double-precision addition, so ten
\* steps stay below 1.0 and eight below 0.8
SleepsFor ==
    40 :> 4 @@ 50 :> 5 @@ 70 :> 7 @@ 75 :> 8 @@ 80 :> 9 @@ 100 :> 11
       @@ 120 :> 12 @@ 150 :> 15 @@ 200 :> 20

\* a sequence loop that returns on the stop event without the final stop
ForTop_NoStopOnBreak(seq, i, event) ==
    IF i > Len(seq)
    THEN [task |-> "done", step |-> i, elapsed |-> 0, submit |-> "stop"]
    ELSE IF event
    THEN [task |-> "done", step |-> i, elapsed |-> 0, submit |-> "none"]
    ELSE [task |-> "sleeping", step |-> i, elapsed |-> 0, submit |-> seq[i][1]]

\* _execute_demo_sequence from the top of its for loop at step i up to the
\* next suspension: [task, step, elapsed, submit].  Past the last step, or
\* with the stop event set, the loop is left and stop is submitted;
\* otherwise the step's command is submitted and the wait loop reaches its
\* first sleep (every duration is positive)
ForTop(seq, i, event) ==
    IF i > Len(seq) \/ event
    THEN [task |-> "done", step |-> i, elapsed |-> 0, submit |-> "stop"]
    ELSE [task |-> "sleeping", step |-> i, elapsed |-> 0, submit |-> seq[i][1]]

\* _execute_demo_sequence resumed from a sleep of step i: one more sleep is
\* counted; the wait loop either sleeps again, or is left (time is up, or
\* the stop event is set) and the for loop goes on to its next step
AfterSleep(seq, i, elapsed, event) ==
    IF elapsed + 1 < SleepsFor[seq[i][2]] /\ ~event
    THEN [task |-> "sleeping", step |-> i, elapsed |-> elapsed + 1,
          submit |-> "none"]
    ELSE ForTop(seq, i + 1, event)

\* _execute_demo_sequence resumed from a sleep of step i by the
\* CancelledError of a cancelled task: the except clause around the wait
\* loop leaves the for loop, and stop is submitted
AfterCancel(i) ==
    [task |-> "done", step |-> i, elapsed |-> 0, submit |-> "stop"]

\* start_demo(name): False while a task exists and is not done, False for a
\* name without method; otherwise the event is cleared and the method is
\* called: a coroutine function gives the coroutine the new task runs, any
\* other method runs at once, builds a coroutine it never awaits and returns
\* None, on which create_task raises TypeError
StartDemoCall(d, name) ==
    IF d.task \in {"ready", "sleeping"} \/ name \notin DemoNames
    THEN [d EXCEPT !.started = "false"]
    ELSE IF name \in CoroutineDemos
    THEN [d EXCEPT !.event = FALSE, !.task = "ready", !.name = name,
                   !.gen = d.gen + 1, !.step = 0, !.elapsed = 0,
                   !.cancel = FALSE, !.log = <<>>, !.started = "true"]
    ELSE [d EXCEPT !.event = FALSE, !.started = "raises"]

\* a request handler awaits start_demo(name)
StartDemo(name) ==
    /\ demo.nStart < MaxDemoStarts
    /\ demo' = [StartDemoCall(demo, name) EXCEPT !.nStart = demo.nStart + 1]
    /\ UNCHANGED <<coreVars, host, sonar, periphVars>>

\* the event loop runs the demo task up to its next suspension; what it
\* submits goes through add_command
DemoRun ==
    /\ demo.task \in {"ready", "sleeping"}
    /\ LET seq == DemoSequence[demo.name]
           r == IF demo.task = "ready" THEN ForTop(seq, 1, demo.event)
                ELSE IF demo.cancel THEN AfterCancel(demo.step)
                ELSE AfterSleep(seq, demo.step, demo.elapsed, demo.event)
           a == AddCommand(queue, graceActive, graceEnd, now,
                           [id |-> nSubmitted + 1, name |-> r.submit])
       IN  /\ demo' = [demo EXCEPT
                         !.task = r.task, !.step = r.step,
                         !.elapsed = r.elapsed,
                         !.log = IF r.submit = "none" THEN demo.log
                                 ELSE Append(demo.log, r.submit)]
           /\ IF r.submit = "none"
              THEN UNCHANGED <<queue, graceVars, cancelled, nSubmitted>>
              ELSE /\ queue' = a.queue
                   /\ graceActive' = a.graceActive
                   /\ graceEnd' = a.graceEnd
                   /\ cancelled' = cancelled \cup (a.drained \ {0})
                   /\ nSubmitted' = nSubmitted + 1
    /\ UNCHANGED <<running, cmdTasks, monTasks, shutdown, host, sonar, periphVars, threadVars,
                   evicted,
                   dispPC, driveVars, speed, store, sensorVars, now, monVars,
                   nTicks, nSetSpeed, executed, lastExec>>

\* a request handler awaits stop_demo() up to its suspension in wait_for:
\* with a task that is not done the event is set, stop is submitted and
\* wait_for is called with that task; otherwise the call returns False at
\* once
StopDemo ==
    /\ demo.nStop < MaxDemoStops
    /\ IF demo.task \in {"ready", "sleeping"}
       THEN LET a == AddCommand(queue, graceActive, graceEnd, now,
                                [id |-> nSubmitted + 1, name |-> "stop"])
            IN  /\ demo' = [demo EXCEPT !.event = TRUE,
                                        !.waits = Append(@, demo.gen),
                                        !.nStop = demo.nStop + 1]
                /\ queue' = a.queue
                /\ graceActive' = a.graceActive
                /\ graceEnd' = a.graceEnd
                /\ cancelled' = cancelled \cup (a.drained \ {0})
                /\ nSubmitted' = nSubmitted + 1
       ELSE /\ demo' = [demo EXCEPT !.nStop = demo.nStop + 1]
            /\ UNCHANGED <<queue, graceVars, cancelled, nSubmitted>>
    /\ UNCHANGED <<running, cmdTasks, monTasks, shutdown, host, sonar, periphVars, threadVars,
                   evicted,
                   dispPC, driveVars, speed, store, sensorVars, now, monVars,
                   nTicks, nSetSpeed, executed, lastExec>>

\* task g has ended: a task is created only when the one before it is done
DemoTaskDone(g) == g < demo.gen \/ demo.task = "done"

\* waits without its i-th element
WithoutWait(i) ==
    [k \in 1 .. Len(demo.waits) - 1 |->
        IF k < i THEN demo.waits[k] ELSE demo.waits[k + 1]]

\* a stop_demo that returns True without waiting for the task
StopDemoReturn_NoWait ==
    /\ demo.waits # <<>>
    /\ demo' = [demo EXCEPT !.waits = Tail(@),
                            !.stopped = @ \cup {Head(demo.waits)}]
    /\ UNCHANGED <<coreVars, host, sonar, periphVars>>

\* the 2.0 s of a wait_for run out while the task it waits for is still in
\* a sleep (the event loop was kept busy meanwhile): wait_for cancels the
\* task and stays suspended until the task has ended.  A task that was
\* never run has its first step queued before any timer is served, and a
\* task already cancelled is not cancelled again
StopDemoTimeout ==
    /\ \E i \in 1 .. Len(demo.waits) : demo.waits[i] = demo.gen
    /\ demo.task = "sleeping"
    /\ ~demo.cancel
    /\ demo' = [demo EXCEPT !.cancel = TRUE]
    /\ UNCHANGED <<coreVars, host, sonar, periphVars>>

\* wait_for returns because the task it was called with has ended, whether
\* _demo_task is still that task or a task start_demo has created since,
\* and stop_demo returns True
StopDemoReturn ==
    /\ \E i \in 1 .. Len(demo.waits) :
          /\ DemoTaskDone(demo.waits[i])
          /\ demo' = [demo EXCEPT !.waits = WithoutWait(i),
                                  !.stopped = @ \cup {demo.waits[i]}]
    /\ UNCHANGED <<coreVars, host, sonar, periphVars>>

\* The demo scenario: demos are started and stopped through RobotDemos; what
\* they submit collects in the executor's queue (nothing flows back from
\* the dispatcher to RobotDemos, so the dispatcher is left out).
DemoNext ==
    \/ \E name \in DemoRequests : StartDemo(name)
    \/ DemoRun
    \/ StopDemo
    \/ StopDemoTimeout
    \/ StopDemoReturn

DemoSpec == Init /\ [][DemoNext]_vars

(* --------------------------- lifespan (main.py) ------------------------ *)
\* the methods class CommandExecutor defines
ExecutorMethods == {"start_threads", "stop_threads", "add_command",
                    "_execute_commands_loop", "_distance_monitor_loop"}

\* the methods lifespan awaits on command_executor to start and to stop the
\* background work
LifespanCalls == [start |-> "start_tasks", stop |-> "stop_tasks"]

\* the process before lifespan is entered: the module-level globals are None,
\* nothing is constructed, the outputs are idle
BootInit ==
    /\ store \in BootStores
    /\ host = [pc |-> "boot", motor |-> FALSE, executor |-> FALSE]
    /\ sonar = [temperature |-> DEFAULT_TEMPERATURE, pulse_duration |-> 0,
                distance |-> 0]
    /\ demo = NoDemo
    /\ cam = NoCam
    /\ vad = NoVad
    /\ workPC = "none"
    /\ loopPC = "none"
    /\ agentDir = "none"
    /\ speed = 0
    /\ detection = "unset"
    /\ sensorAttrs = FALSE
    /\ buffer = <<>>
    /\ pins = [pin \in Pins |-> LOW]
    /\ duty = [w \in Pwms |-> 0]
    /\ queue = <<>>
    /\ dispPC = "idle"
    /\ graceActive = FALSE
    /\ graceEnd = 0
    /\ now = 0
    /\ monPC = "top"
    /\ monResult = NoneResult
    /\ tickStop = FALSE
    /\ nTicks = 0
    /\ nSubmitted = 0
    /\ nSetSpeed = 0
    /\ executed = <<>>
    /\ cancelled = {}
    /\ lastExec = "none"
    /\ running = FALSE
    /\ cmdTasks = 0
    /\ monTasks = 0
    /\ evicted = <<>>
    /\ shutdown = "none"

\* a lifespan that logs a failed construction and goes on to serve
LifespanStartup_ServesAnyway(hwOK, lg) ==
    /\ host.pc = "boot"
    /\ host' = [pc |-> "serving", motor |-> hwOK, executor |-> hwOK]
    /\ UNCHANGED <<coreVars, sonar, demo, periphVars>>

\* lifespan up to its yield, with the except and finally blocks that run
\* when the start-up raises.  hwOK: the pins and PWM channels are available;
\* lg: the content of settings.json.
\*  - MotorControl() raises: sys.exit(1) in the handler, then the finally
\*    block finds command_executor None and raises AttributeError;
\*  - MotorControl and CommandExecutor are constructed, then the awaited
\*    method is looked up on the executor: a name the class does not define
\*    raises AttributeError, which takes the same path (the finally block
\*    looks up the stop method the same way)
LifespanStartup(hwOK, lg) ==
    /\ host.pc = "boot"
    /\ IF ~hwOK
       THEN /\ host' = [pc |-> "failed", motor |-> FALSE, executor |-> FALSE]
            /\ UNCHANGED <<coreVars, sonar, demo, periphVars>>
       ELSE LET loaded == LoadSpeed(store, lg)
                started == LifespanCalls.start \in ExecutorMethods
            IN  /\ speed' = Max(MIN_SPEED_LIMIT, loaded.speed)
                /\ store' = loaded.store
                /\ detection' = IF loaded.touched THEN "on" ELSE "unset"
                /\ sensorAttrs' = loaded.touched
                /\ pins' = MotorStop([pins |-> [pin \in Pins |-> LOW],
                                      duty |-> [w \in Pwms |-> 0]]).pins
                /\ duty' = MotorStop([pins |-> [pin \in Pins |-> LOW],
                                      duty |-> [w \in Pwms |-> 0]]).duty
                /\ running' = started
                /\ cmdTasks' = IF started THEN SpawnIfIdle(cmdTasks) ELSE cmdTasks
                /\ monTasks' = IF started THEN SpawnIfIdle(monTasks) ELSE monTasks
                /\ host' = [pc |-> IF started THEN "serving" ELSE "failed",
                            motor |-> TRUE, executor |-> TRUE]
                /\ UNCHANGED <<queue, dispPC, buffer, graceVars, now, monVars,
                               nTicks, nSubmitted, nSetSpeed, histVars,
                               evicted, shutdown, sonar, demo, periphVars,
                               threadVars>>

\* The start-up scenario: the application boots with one of the stored
\* speeds, with or without working hardware.
LifespanNext ==
    \E hwOK \in BOOLEAN, lg \in MotorLegacies : LifespanStartup(hwOK, lg)

LifespanSpec == BootInit /\ [][LifespanNext]_vars

(* -------------------- camera (camera_streamer.py) ---------------------- *)
\* The routes /camera/start and /camera/stop are coroutines that call the
\* streamer without awaiting anything, so the calls follow one another on
\* the event loop thread (cam.pc); the capture threads run beside them, and
\* every read or write of self.cap, _is_streaming and the stop event that
\* another thread can fall between is a step of its own.

\* the capture threads there can be: one for each device opened
CaptureThreads == 1 .. MaxCamOpens

\* _capture_thread.is_alive() of the thread at position i
ThreadAlive(i) == cam.thr[i] \notin {"dead", "crashed"}

\* the threads that are inside a call of cap.read()
ReadingThreads == {i \in 1 .. Len(cam.thr) : cam.thr[i] = "reading"}

CamStep(c) ==
    /\ cam' = c
    /\ UNCHANGED <<coreVars, host, sonar, demo, vad>>

\* start_camera_capture, line 34: already streaming -> True
StartCamera ==
    /\ cam.pc = "idle"
    /\ IF cam.streaming
          THEN CamStep([cam EXCEPT !.ret = "true"])
          ELSE /\ cam.nOpen < MaxCamOpens
               /\ CamStep([cam EXCEPT !.pc = "open", !.ret = "none",
                                      !.failed = FALSE])

\* line 41: self.cap = cv2.VideoCapture(index); the device opens or not
StartCamera_Open(ok) ==
    /\ cam.pc = "open"
    /\ CamStep([cam EXCEPT !.cap = cam.nOpen + 1, !.nOpen = cam.nOpen + 1,
                           !.open = IF ok THEN @ \cup {cam.nOpen + 1} ELSE @,
                           !.pc = "check"])

\* lines 42-45: self.cap.isOpened(); None has no such method (except branch)
StartCamera_Check ==
    /\ cam.pc = "check"
    /\ CamStep(IF cam.cap = 0 THEN [cam EXCEPT !.pc = "except"]
               ELSE IF cam.cap \notin cam.open
                       THEN [cam EXCEPT !.cap = 0, !.pc = "idle",
                                        !.ret = "false"]
               ELSE [cam EXCEPT !.pc = "config"])

\* lines 48-56: self.cap.set(...) and self.cap.get(...)
StartCamera_Config ==
    /\ cam.pc = "config"
    /\ CamStep(IF cam.cap = 0 THEN [cam EXCEPT !.pc = "except"]
               ELSE [cam EXCEPT !.pc = "setflag"])

\* line 58
StartCamera_SetFlag ==
    /\ cam.pc = "setflag"
    /\ CamStep([cam EXCEPT !.streaming = TRUE, !.pc = "clear"])

\* line 59
StartCamera_Clear ==
    /\ cam.pc = "clear"
    /\ CamStep([cam EXCEPT !.event = FALSE, !.pc = "spawn"])

\* lines 63-64: the thread is created and started; it runs from now on,
\* while the call has not returned yet
StartCamera_Spawn ==
    /\ cam.pc = "spawn"
    /\ CamStep([cam EXCEPT !.thr = Append(@, "loop"), !.rd = Append(@, 0),
                           !.pc = "started"])

\* line 66: return True
StartCamera_Return ==
    /\ cam.pc = "started"
    /\ CamStep([cam EXCEPT !.pc = "idle", !.ret = "true",
                           !.armed = ~cam.failed])

\* lines 68-72
StartCamera_Except ==
    \/ /\ cam.pc = "except"
       /\ CamStep([cam EXCEPT !.cap = 0, !.pc = "except2"])
    \/ /\ cam.pc = "except2"
       /\ CamStep([cam EXCEPT !.streaming = FALSE, !.pc = "idle",
                              !.ret = "false"])

\* stop_camera_capture, lines 131-133
StopCamera ==
    /\ cam.pc = "idle"
    /\ CamStep(IF ~cam.streaming
                  THEN [cam EXCEPT !.ret = "false", !.armed = FALSE]
                  ELSE [cam EXCEPT !.pc = "set", !.ret = "none",
                                   !.armed = FALSE])

\* line 136
StopCamera_Set ==
    /\ cam.pc = "set"
    /\ CamStep([cam EXCEPT !.event = TRUE, !.pc = "join"])

\* lines 139-141: with a _capture_thread that is alive, join(timeout=5) is
\* entered; otherwise the call goes on to line 148
StopCamera_Join ==
    /\ cam.pc = "join"
    /\ CamStep(IF cam.thr # <<>> /\ ThreadAlive(Len(cam.thr))
                  THEN [cam EXCEPT !.pc = "joining"]
                  ELSE [cam EXCEPT !.pc = "release"])

\* line 141: join returns because the thread has ended
StopCamera_Joined ==
    /\ cam.pc = "joining"
    /\ ~ThreadAlive(Len(cam.thr))
    /\ CamStep([cam EXCEPT !.pc = "release"])

\* lines 141-143: join returns after its 5 s with the thread still alive
\* (the thread is held in read() or was not scheduled), and the call goes on
StopCamera_JoinTimeout ==
    /\ cam.pc = "joining"
    /\ ThreadAlive(Len(cam.thr))
    /\ CamStep([cam EXCEPT !.pc = "release"])

\* lines 148-150: self.cap is read for the test and again for release();
\* None has no release (AttributeError leaves the call, lines 150-156 are
\* not run)
StopCamera_Release ==
    \/ /\ cam.pc = "release"
       /\ CamStep(IF cam.cap = 0 THEN [cam EXCEPT !.pc = "flag"]
                  ELSE [cam EXCEPT !.pc = "release2"])
    \/ /\ cam.pc = "release2"
       /\ CamStep(IF cam.cap = 0
                     THEN [cam EXCEPT !.pc = "idle", !.ret = "raises"]
                  ELSE [cam EXCEPT !.open = @ \ {cam.cap},
                                   !.pc = "capnone"])
    \/ /\ cam.pc = "capnone"
       /\ CamStep([cam EXCEPT !.cap = 0, !.pc = "flag"])

\* lines 153-156
StopCamera_Flag ==
    \/ /\ cam.pc = "flag"
       /\ CamStep([cam EXCEPT !.streaming = FALSE, !.pc = "frame"])
    \/ /\ cam.pc = "frame"
       /\ CamStep([cam EXCEPT !.frame = FALSE, !.pc = "idle",
                              !.ret = "true"])

\* _read_frames_loop, line 79: the while condition reads _is_streaming, the
\* stop event, self.cap and self.cap again for isOpened(), one after the
\* other; None has no isOpened (AttributeError ends the thread at once,
\* lines 91-96 are not run)
ReadLoop_Test(i) ==
    \/ /\ i \in DOMAIN cam.thr
       /\ cam.thr[i] = "loop"
       /\ CamStep([cam EXCEPT !.thr[i] =
                      IF cam.streaming THEN "loop2" ELSE "teardown"])
    \/ /\ i \in DOMAIN cam.thr
       /\ cam.thr[i] = "loop2"
       /\ CamStep([cam EXCEPT !.thr[i] =
                      IF ~cam.event THEN "loop3" ELSE "teardown"])
    \/ /\ i \in DOMAIN cam.thr
       /\ cam.thr[i] = "loop3"
       /\ CamStep([cam EXCEPT !.thr[i] =
                      IF cam.cap # 0 THEN "loop4" ELSE "teardown"])
    \/ /\ i \in DOMAIN cam.thr
       /\ cam.thr[i] = "loop4"
       /\ CamStep([cam EXCEPT !.thr[i] =
                      IF cam.cap = 0 THEN "crashed"
                      ELSE IF cam.cap \in cam.open THEN "read"
                      ELSE "teardown"])

\* line 80: self.cap is evaluated and its read() is entered; None has no
\* read (the thread dies)
ReadLoop_Read(i) ==
    /\ i \in DOMAIN cam.thr
    /\ cam.thr[i] = "read"
    /\ CamStep(IF cam.cap = 0 THEN [cam EXCEPT !.thr[i] = "crashed"]
               ELSE [cam EXCEPT !.thr[i] = "reading", !.rd[i] = cam.cap])

\* line 80: read() returns; an object released meanwhile returns no frame,
\* an open one returns a frame or not
ReadLoop_ReadReturn(i, ok) ==
    /\ i \in DOMAIN cam.thr
    /\ cam.thr[i] = "reading"
    /\ CamStep(IF ok /\ cam.rd[i] \in cam.open
                  THEN [cam EXCEPT !.thr[i] = "store", !.rd[i] = 0]
               ELSE [cam EXCEPT !.thr[i] = "fail", !.rd[i] = 0,
                                !.failed = TRUE, !.armed = FALSE])

\* lines 81-84
ReadLoop_Fail(i) ==
    /\ i \in DOMAIN cam.thr
    /\ cam.thr[i] = "fail"
    /\ CamStep([cam EXCEPT !.streaming = FALSE, !.thr[i] = "teardown"])

\* lines 86-88
ReadLoop_Store(i) ==
    /\ i \in DOMAIN cam.thr
    /\ cam.thr[i] = "store"
    /\ CamStep([cam EXCEPT !.frame = TRUE, !.thr[i] = "loop"])

\* lines 91-96: self.cap is read for the test and again for release(), and
\* whatever it holds then is released; None has no release (AttributeError
\* ends the thread, lines 94-96 are not run)
ReadLoop_Teardown(i) ==
    \/ /\ i \in DOMAIN cam.thr
       /\ cam.thr[i] = "teardown"
       /\ CamStep([cam EXCEPT !.thr[i] =
                      IF cam.cap # 0 THEN "release" ELSE "capnone"])
    \/ /\ i \in DOMAIN cam.thr
       /\ cam.thr[i] = "release"
       /\ CamStep(IF cam.cap = 0 THEN [cam EXCEPT !.thr[i] = "crashed"]
                  ELSE [cam EXCEPT !.open = @ \ {cam.cap},
                                   !.thr[i] = "capnone"])
    \/ /\ i \in DOMAIN cam.thr
       /\ cam.thr[i] = "capnone"
       /\ CamStep([cam EXCEPT !.cap = 0, !.thr[i] = "flag"])
    \/ /\ i \in DOMAIN cam.thr
       /\ cam.thr[i] = "flag"
       /\ CamStep([cam EXCEPT !.streaming = FALSE, !.thr[i] = "frame"])
    \/ /\ i \in DOMAIN cam.thr
       /\ cam.thr[i] = "frame"
       /\ CamStep([cam EXCEPT !.frame = FALSE, !.thr[i] = "dead"])

\* The camera scenario: start and stop calls on the event loop thread and
\* the capture threads they leave behind, in every interleaving.
CameraNext ==
    \/ StartCamera
    \/ \E ok \in BOOLEAN : StartCamera_Open(ok)
    \/ StartCamera_Check
    \/ StartCamera_Config
    \/ StartCamera_SetFlag
    \/ StartCamera_Clear
    \/ StartCamera_Spawn
    \/ StartCamera_Return
    \/ StartCamera_Except
    \/ StopCamera
    \/ StopCamera_Set
    \/ StopCamera_Join
    \/ StopCamera_Joined
    \/ StopCamera_JoinTimeout
    \/ StopCamera_Release
    \/ StopCamera_Flag
    \/ \E i \in CaptureThreads : ReadLoop_Test(i)
    \/ \E i \in CaptureThreads : ReadLoop_Read(i)
    \/ \E i \in CaptureThreads, ok \in BOOLEAN : ReadLoop_ReadReturn(i, ok)
    \/ \E i \in CaptureThreads : ReadLoop_Fail(i)
    \/ \E i \in CaptureThreads : ReadLoop_Store(i)
    \/ \E i \in CaptureThreads : ReadLoop_Teardown(i)

CameraSpec == Init /\ [][CameraNext]_vars

(* ---------------------- voice (vad_processor.py) ----------------------- *)
\* The clock is kept in milliseconds (vad.t, the start times): time.time()
\* is the double nearest to that many thousandths of a second, and the
\* duration fields of a result are given to the nearest millisecond.

\* frames kept for smoothing: deque(maxlen=5)
RecentLen == 5

\* time that passes between two process_frame calls
FrameGaps == {100, 200}

SpeechCount(rs) == Cardinality({i \in 1 .. Len(rs) : rs[i]})

\* smooth_results: speech when more than half of the recent frames are
SmoothResults(rs) ==
    IF rs = <<>> THEN FALSE ELSE SpeechCount(rs) > Len(rs) \div 2

\* calculate_confidence: the ratio of speech frames, as <<count, length>>
CalculateConfidence(rs) ==
    IF rs = <<>> THEN <<0, 1>> ELSE <<SpeechCount(rs), Len(rs)>>

\* deque.append with maxlen
AppendRecent(rs, b) ==
    LET all == Append(rs, b)
    IN  IF Len(all) > RecentLen THEN Tail(all) ELSE all

\* should_trigger_asr
ShouldTriggerAsr(v) ==
    /\ ~v.is_speaking
    /\ v.speech_start_time # <<>>
    /\ v.silence_start_time # <<>>

\* --- the float arithmetic of the durations (lines 143, 151, 155) ---
\* time.time() returns a double, in seconds, and a duration is computed as
\* (later - earlier) * 1000 in doubles: each of the three operations gives
\* the double nearest to the exact result (ties to the even mantissa).  A
\* natural number of any size is a sequence of bits, lowest bit first; a
\* double x >= 0 is [m, e] with x = m * 2^e and m of at most MantissaBits
\* bits (zero is [<<>>, 0]).

\* bits of the mantissa of a double
MantissaBits == 53

\* milliseconds in a second: the factor of lines 143, 151 and 155
MsPerSecond == 1000

\* the quotient t / 1000 is computed to QuotientChunks * 8 fraction bits
\* before it is rounded, at least MantissaBits + 1 significant bits for any
\* t >= 1; what is left of the division beyond them is kept as sticky
QuotientChunks == 8

RECURSIVE BitsOf(_)
BitsOf(n) == IF n = 0 THEN <<>> ELSE <<n % 2>> \o BitsOf(n \div 2)

RECURSIVE NatOf(_)
NatOf(bits) == IF bits = <<>> THEN 0 ELSE Head(bits) + 2 * NatOf(Tail(bits))

Bit(bits, i) == IF i \in DOMAIN bits THEN bits[i] ELSE 0

\* bits without its leading zeros
Strip(bits) ==
    LET set == {i \in DOMAIN bits : bits[i] = 1}
    IN  IF set = {} THEN <<>>
        ELSE SubSeq(bits, 1, CHOOSE i \in set : \A k \in set : k <= i)

Zeros(n) == [i \in 1 .. n |-> 0]

\* bits times 2^n
ShiftLeft(bits, n) == IF bits = <<>> THEN <<>> ELSE Zeros(n) \o bits

\* the borrow that a - b takes from bit i: below i, b is above a at the
\* highest bit where they differ
Borrow(a, b, i) ==
    \E j \in 1 .. i - 1 :
       /\ Bit(a, j) < Bit(b, j)
       /\ \A k \in j + 1 .. i - 1 : Bit(a, k) = Bit(b, k)

\* a - b for a >= b
Subtract(a, b) ==
    Strip([i \in 1 .. Len(a) |->
             (Bit(a, i) - Bit(b, i) + 2
                - (IF Borrow(a, b, i) THEN 1 ELSE 0)) % 2])

\* the carry that a + b brings into bit i: below i, both bits are set at
\* some place and at least one is set at every place above it
Carry(a, b, i) ==
    \E j \in 1 .. i - 1 :
       /\ Bit(a, j) + Bit(b, j) = 2
       /\ \A k \in j + 1 .. i - 1 : Bit(a, k) + Bit(b, k) >= 1

\* a + b
Add(a, b) ==
    Strip([i \in 1 .. Max(Len(a), Len(b)) + 1 |->
             (Bit(a, i) + Bit(b, i)
                + (IF Carry(a, b, i) THEN 1 ELSE 0)) % 2])

\* a * c for a natural c: a is added for every bit of c that is set
RECURSIVE Times(_, _)
Times(a, c) ==
    IF c = 0 THEN <<>>
    ELSE IF c % 2 = 1 THEN Add(a, ShiftLeft(Times(a, c \div 2), 1))
    ELSE ShiftLeft(Times(a, c \div 2), 1)

\* -1, 0 or 1 as a < b, a = b or a > b: decided at the highest bit where
\* they differ
Compare(a, b) ==
    LET differ == {i \in 1 .. Max(Len(a), Len(b)) : Bit(a, i) # Bit(b, i)}
        top == CHOOSE i \in differ : \A k \in differ : k <= i
    IN  IF differ = {} THEN 0
        ELSE IF Bit(a, top) > Bit(b, top) THEN 1 ELSE 0 - 1

\* the double nearest to bits * 2^e (plus a positive amount below the
\* lowest bit when sticky): round to nearest, ties to even
RoundToDouble(bits, e, sticky) ==
    LET n == Strip(bits)
        drop == Len(n) - MantissaBits
    IN  IF n = <<>> THEN [m |-> <<>>, e |-> 0]
        ELSE IF drop <= 0 THEN [m |-> n, e |-> e]
        ELSE LET kept == SubSeq(n, drop + 1, Len(n))
                 guard == n[drop]
                 rest == sticky \/ \E i \in 1 .. drop - 1 : n[i] = 1
                 up == guard = 1 /\ (rest \/ kept[1] = 1)
                 m == IF up THEN Add(kept, <<1>>) ELSE kept
             IN  IF Len(m) > MantissaBits
                    THEN [m |-> Tail(m), e |-> e + drop + 1]
                    ELSE [m |-> m, e |-> e + drop]

\* eight bits as a sequence, lowest first
Byte(n) == [i \in 1 .. 8 |-> (n \div 2 ^ (i - 1)) % 2]

\* k more groups of eight bits of the quotient r / 1000 for a remainder r,
\* put below the bits found so far, with the last remainder
RECURSIVE DivideSteps(_, _, _)
DivideSteps(r, k, found) ==
    IF k = 0 THEN [bits |-> found, rem |-> r]
    ELSE DivideSteps((r * 256) % MsPerSecond, k - 1,
                     Byte((r * 256) \div MsPerSecond) \o found)

\* the value of time.time() when the clock stands at t milliseconds: the
\* double nearest to t / 1000
FloatOfMs(t) ==
    LET q == DivideSteps(t % MsPerSecond, QuotientChunks,
                         BitsOf(t \div MsPerSecond))
    IN  RoundToDouble(q.bits, 0 - 8 * QuotientChunks, q.rem # 0)

\* x - y in doubles, for x >= y
FloatSub(x, y) ==
    LET e == Min(x.e, y.e)
    IN  RoundToDouble(Subtract(ShiftLeft(x.m, x.e - e),
                               ShiftLeft(y.m, y.e - e)), e, FALSE)

\* x * c in doubles, for a natural c
FloatTimes(x, c) == RoundToDouble(Times(x.m, c), x.e, FALSE)

\* -1, 0 or 1 as the double x is below, equal to or above the natural n
FloatCompare(x, n) ==
    IF x.e >= 0 THEN Compare(ShiftLeft(x.m, x.e), BitsOf(n))
    ELSE Compare(x.m, ShiftLeft(BitsOf(n), 0 - x.e))

\* the natural nearest to the double x (halves go up)
FloatRound(x) ==
    IF x.e >= 0 THEN NatOf(ShiftLeft(x.m, x.e))
    ELSE NatOf(SubSeq(x.m, 1 - x.e, Len(x.m))) + Bit(x.m, 0 - x.e)

\* (later - earlier) * 1000 for two values of time.time(), given in
\* milliseconds: ms is the natural nearest to the double the code computes
\* and cmp tells whether the double is below (-1), equal to (0) or above (1)
\* that natural
DurationOf(later, earlier) ==
    LET d == FloatTimes(FloatSub(FloatOfMs(later), FloatOfMs(earlier)),
                        MsPerSecond)
        ms == FloatRound(d)
    IN  [ms |-> ms, cmp |-> FloatCompare(d, ms)]

\* the values time.time() takes in the voice scenario
ClockValues ==
    LET longest == CHOOSE g \in FrameGaps : \A h \in FrameGaps : h <= g
        shortest == CHOOSE g \in FrameGaps : \A h \in FrameGaps : g <= h
    IN  {t \in 0 .. MaxFrames * longest : t % shortest = 0}

\* the durations between any two clock values, computed once
Durations ==
    <<>> @@ [p \in {q \in ClockValues \X ClockValues : q[1] >= q[2]} |->
               DurationOf(p[1], p[2])]

\* duration >= threshold, for a natural threshold
AtLeast(d, threshold) ==
    d.ms > threshold \/ (d.ms = threshold /\ d.cmp >= 0)

\* process_frame on a frame of the right length that the detector classifies
\* as is_speech, time.time() returning now
ProcessFrameAt(v, is_speech, now_ms) ==
    LET rs == AppendRecent(v.recent_results, is_speech)
        smoothed == SmoothResults(rs)
        counted == [v EXCEPT !.total_frames = @ + 1,
                             !.speech_frames = IF is_speech THEN @ + 1 ELSE @,
                             !.silence_frames = IF is_speech THEN @ ELSE @ + 1,
                             !.recent_results = rs]
        res(sp, si) == [is_speech |-> smoothed,
                        confidence |-> CalculateConfidence(rs),
                        speech_duration_ms |-> sp, silence_duration_ms |-> si]
    IN  IF smoothed
           THEN LET start == IF v.is_speaking THEN v.speech_start_time
                                              ELSE <<now_ms>>
                IN  [counted EXCEPT
                        !.is_speaking = TRUE,
                        !.speech_start_time = start,
                        !.silence_start_time = <<>>,
                        !.ended = IF v.is_speaking THEN @ ELSE "none",
                        !.spoke = TRUE,
                        !.result = res(IF start # <<>> /\ start[1] # 0
                                          THEN Durations[now_ms, start[1]].ms
                                          ELSE 0, 0)]
        ELSE IF ~v.is_speaking
           THEN [counted EXCEPT !.result = res(0, 0)]
        ELSE LET sil == IF v.silence_start_time = <<>> THEN now_ms
                        ELSE v.silence_start_time[1]
                 silence == Durations[now_ms, sil]
                 speech == IF v.speech_start_time # <<>>
                              /\ v.speech_start_time[1] # 0
                              THEN Durations[sil, v.speech_start_time[1]]
                              ELSE [ms |-> 0, cmp |-> 0]
             IN  IF AtLeast(silence, min_silence_duration_ms)
                    THEN [counted EXCEPT
                            !.silence_start_time = <<sil>>,
                            !.is_speaking = FALSE,
                            !.speech_start_time = <<>>,
                            !.ended = IF AtLeast(speech,
                                                 min_speech_duration_ms)
                                         THEN "valid" ELSE "short",
                            !.result = res(speech.ms, silence.ms)]
                    ELSE [counted EXCEPT
                            !.silence_start_time = <<sil>>,
                            !.result = res(0, silence.ms)]

VadStep(v) ==
    /\ vad' = v
    /\ UNCHANGED <<coreVars, host, sonar, demo, cam>>

\* process_frame; a frame of the wrong length is answered without a look at
\* the detector, the clock or the state
ProcessFrame(rightLength, is_speech, gap) ==
    /\ vad.nCalls < MaxFrames
    /\ LET v == [vad EXCEPT !.t = @ + gap, !.nCalls = @ + 1]
       IN  VadStep(IF rightLength THEN ProcessFrameAt(v, is_speech, v.t)
                   ELSE [v EXCEPT !.result =
                            [is_speech |-> FALSE, confidence |-> <<0, 1>>,
                             speech_duration_ms |-> 0,
                             silence_duration_ms |-> 0]])

\* reset
ResetVad ==
    /\ vad' = [vad EXCEPT !.is_speaking = FALSE, !.speech_start_time = <<>>,
                          !.silence_start_time = <<>>, !.speech_frames = 0,
                          !.silence_frames = 0, !.total_frames = 0,
                          !.recent_results = <<>>, !.ended = "none",
                          !.spoke = FALSE]
    /\ UNCHANGED <<coreVars, host, sonar, demo, cam>>

VadNext ==
    \/ \E rightLength \in BOOLEAN, is_speech \in BOOLEAN, gap \in FrameGaps :
          ProcessFrame(rightLength, is_speech, gap)
    \/ ResetVad

VadSpec == Init /\ [][VadNext]_vars

(* ------------------------------ claims -------------------------------- *)
\* a step in which add_command("stop") ran: a collaborator's call, or the
\* monitor's on an obstacle
StopSubmitted ==
    \/ Submit("stop")
    \/ (MonitorResult /\ ObstacleDetected(monResult, speed))

\* C1: priority drain.  No command that was still in the queue when
\* add_command("stop") was called is ever executed by the dispatcher.
C1_PriorityDrain == cancelled \cap Range(executed) = {}

\* a stop has drained a pending command and has itself been executed
C1_Witness ==
    /\ cancelled # {}
    /\ lastExec = "stop"
    /\ executed # <<>>
    /\ executed[Len(executed)] - 1 \in cancelled

\* C2: add_command("stop") is atomic: in the state it returns in, the queue
\* holds exactly one entry, the stop it enqueued.
C2_StopAtomic ==
    [][StopSubmitted => (Len(queue') = 1 /\ queue'[1].name = "stop")]_vars

\* a collaborator's stop sits alone in the queue after draining the command
\* submitted just before it
C2_Witness ==
    /\ Len(queue) = 1
    /\ queue[1].name = "stop"
    /\ queue[1].id = nSubmitted
    /\ (nSubmitted - 1) \in cancelled

\* C3: stop() from any reachable drivetrain state leaves all eight direction
\* pins LOW and all four duty cycles 0, and a second stop() changes nothing.
C3_StopSafe ==
    /\ FullyStopped(MotorStop(Drive))
    /\ MotorStop(MotorStop(Drive)) = MotorStop(Drive)

\* stop() has acted on a rotating drivetrain at the end of a hold
C3_Witness ==
    /\ lastExec \in {"turn_left", "turn_right"}
    /\ dispPC = "idle"
    /\ FullyStopped(Drive)
    /\ speed = MIN_SPEED_LIMIT

\* no collaborator will submit another command
Quiescent == nSubmitted = MaxCmds

\* C4: obstacle interlock.  With both loops running, no grace period active,
\* detection not disabled and move_forward energized, an obstacle that stays
\* below the threshold makes the drivetrain reach the fully stopped state
\* without any further external command.
C4_InterlockLive ==
    (/\ Quiescent
     /\ ~graceActive
     /\ detection # "off"
     /\ dispPC = "idle"
     /\ lastExec = "move_forward"
     /\ ~FullyStopped(Drive)) ~> FullyStopped(Drive)

\* the speed-scaled test of the specification:
\* dist < OBSTACLE_BASE_DISTANCE + speed * OBSTACLE_SPEED_FACTOR
BelowDynamicThreshold(dist, s) ==
    /\ dist.kind = "value"
    /\ dist.value # -1
    /\ dist.value * OBSTACLE_SPEED_FACTOR_DEN
         < OBSTACLE_BASE_DISTANCE * OBSTACLE_SPEED_FACTOR_DEN
             + s * OBSTACLE_SPEED_FACTOR_NUM

\* C5: a monitor tick submits stop if and only if the sample is valid and
\* below OBSTACLE_BASE_DISTANCE + get_speed() * OBSTACLE_SPEED_FACTOR.
C5_DynamicThreshold ==
    [][MonitorResult => (tickStop' <=> BelowDynamicThreshold(monResult, speed))]_vars

\* C6: while a grace period is active and unexpired the monitor neither
\* starts a measurement nor submits stop.
C6_GraceSuppresses ==
    [][GraceUnexpired(graceActive, graceEnd, now) =>
         /\ ~MonitorStart
         /\ ~(MonitorResult /\ ObstacleDetected(monResult, speed))]_vars

\* C7: the grace period is armed exactly by submitting move_back, cleared
\* exactly by submitting stop or by the monitor seeing the expiry time
\* passed, and any other submission leaves flag and expiry time unchanged.
C7_GraceFrame ==
    [][/\ Submit("move_back") =>
            (graceActive' /\ graceEnd' = now + GRACE_PERIOD_DURATION)
       /\ StopSubmitted => (~graceActive' /\ graceEnd' = graceEnd)
       /\ (\E name \in Commands \ {"move_back", "stop"} : Submit(name)) =>
            UNCHANGED graceVars
       /\ (graceActive /\ ~GraceUnexpired(graceActive, graceEnd, now)
             /\ MonitorStart) => ~graceActive'
       /\ (graceVars' # graceVars) =>
            \/ Submit("move_back")
            \/ StopSubmitted
            \/ (MonitorStart /\ graceActive /\ now >= graceEnd)]_vars

\* move_back has just armed a grace period that a stop will have to clear
C7_Witness ==
    /\ graceActive
    /\ graceEnd = now + GRACE_PERIOD_DURATION
    /\ now > 0
    /\ queue # <<>>
    /\ queue[Len(queue)].name = "move_back"

\* C8: once the dispatcher has dequeued turn_left or turn_right the
\* drivetrain eventually reaches the fully stopped state.
C8_RotationTerminates == (dispPC = "hold") ~> FullyStopped(Drive)

\* a rotation that was the last command submitted has ended in a stop
C8_Witness ==
    /\ lastExec \in {"turn_left", "turn_right"}
    /\ dispPC = "idle"
    /\ queue = <<>>
    /\ nSubmitted = MaxCmds
    /\ FullyStopped(Drive)

\* C9: during a rotation's hold distance detection stays disabled.
C9_DetectionOffInHold == (dispPC = "hold") => (detection = "off")

\* C10: right after the dispatcher has executed stop the drivetrain is
\* fully stopped and distance detection is enabled.
C10_StopExecuted ==
    [][(Dispatch /\ Head(queue).name = "stop") =>
         (FullyStopped(Drive') /\ detection' = "on")]_vars

\* the dispatcher's stop has enabled a detection flag that no set_speed
\* had created, after a motion
C10_Witness ==
    /\ lastExec = "stop"
    /\ Len(executed) >= 2
    /\ ~sensorAttrs
    /\ detection = "on"
    /\ FullyStopped(Drive)

\* C11: a command name that is not one of the eleven motion commands is
\* dropped: executing it leaves drivetrain, speed, detection and sensor state
\* unchanged and the dispatcher returns to idle for the next command.
C11_UnknownDropped ==
    [][(Dispatch /\ Head(queue).name \notin MotionCommands) =>
         /\ UNCHANGED <<auxVars, driveVars, speed, store, sensorVars>>
         /\ dispPC' = "idle"]_vars

\* C12: the commands the dispatcher executes are a subsequence of the
\* commands submitted, in submission order: every executed id was submitted,
\* and the ids executed are strictly increasing (no command is executed
\* twice, none overtakes an earlier one).
C12_ExecutedSubsequence ==
    /\ \A i \in 1..Len(executed) : executed[i] \in 1..nSubmitted
    /\ \A i, j \in 1..Len(executed) : i < j => executed[i] < executed[j]

\* two commands that waited in the queue together have both been executed
C12_Witness ==
    /\ Len(executed) >= 2
    /\ executed[Len(executed)] = executed[Len(executed) - 1] + 1
    /\ lastExec # "stop"
    /\ cancelled = {}
    /\ ~FullyStopped(Drive)

\* the command with submission number i waits in the queue
InQueue(i) == \E k \in 1..Len(queue) : queue[k].id = i

\* C13: while the loops are running, every submitted command is eventually
\* executed by the dispatcher unless a stop submitted after it drains it.
C13_EventuallyExecuted ==
    \A i \in 1..MaxCmds :
        (running /\ cmdTasks >= 1 /\ InQueue(i))
            ~> (i \in Range(executed) \/ i \in cancelled)

\* every command submitted has been executed, none was drained, and the
\* last one keeps the drivetrain energized
C13_Witness ==
    /\ nSubmitted = MaxCmds
    /\ Len(executed) = MaxCmds
    /\ executed[Len(executed)] = MaxCmds
    /\ lastExec = "move_back"
    /\ cancelled = {}
    /\ dispPC = "idle"
    /\ ~FullyStopped(Drive)

\* C14: at most one command is in flight: there is never more than one
\* dispatcher task or more than one monitor task, however often
\* start_threads is called, and a command is taken from the queue only by
\* the one dispatcher while it is idle, never during a rotation's hold.
C14_OneInFlight ==
    /\ [](cmdTasks <= 1 /\ monTasks <= 1)
    /\ [][(queue # <<>> /\ queue' = Tail(queue)) =>
            (dispPC = "idle" /\ cmdTasks = 1)]_vars

\* a command waits in the queue while a rotation is in its hold
C14_Witness ==
    /\ cmdTasks = 1
    /\ monTasks = 1
    /\ dispPC = "hold"
    /\ queue # <<>>
    /\ monPC # "top"

\* the open-loop motions: every primitive except the two rotations
ContinuousMotions == MotionPrimitives \ {"turn_left", "turn_right"}

\* C15: for a motion command other than turn_left, turn_right and stop the
\* dispatcher sets the primitive's pin pattern and returns to idle at once,
\* and that pattern stays until the dispatcher dequeues the next command.
C15_MotionPersists ==
    [][/\ (Dispatch /\ Head(queue).name \in ContinuousMotions) =>
            /\ pins' = Primitive(Head(queue).name, Drive, speed).pins
            /\ ~FullyStopped(Drive')
            /\ dispPC' = "idle"
       /\ (lastExec \in ContinuousMotions /\ pins' # pins) => Dispatch]_vars

\* move_forward is still energized after the monitor ran a whole iteration
\* and the clock advanced, with nothing left in the queue
C15_Witness ==
    /\ lastExec = "move_forward"
    /\ dispPC = "idle"
    /\ queue = <<>>
    /\ pins = Primitive("move_forward", Drive, speed).pins
    /\ ~FullyStopped(Drive)
    /\ monPC = "sleeping"
    /\ now > 0

\* C16: measure_distance() always completes with a filtered distance, the
\* failure sentinel -1 or None; it never fails with an error.
C16_MeasureNeverFails == monResult.kind # "error"

\* C17: while distance detection is disabled, measure_distance() returns
\* None without pulsing the trigger pin and without changing the buffer.
C17_DisabledNoTouch ==
    [][\A e \in SensorEchoes :
         (MeasureCall(e) /\ detection = "off") =>
            /\ monResult' = NoneResult
            /\ buffer' = buffer
            /\ ~MeasureDistance(detection, sensorAttrs, buffer, e, WholeCm).triggered]_vars

\* a disabled call has returned None and the samples taken before it are
\* still in the buffer
C17_Witness ==
    /\ detection = "off"
    /\ monResult = NoneResult
    /\ Len(buffer) >= 2

\* C18: when an echo wait times out, measure_distance() returns -1 and
\* leaves the buffer as it was; a call that gets an echo afterwards returns
\* the median of the retained samples plus the new one.
C18_TimeoutKeepsBuffer ==
    [][\A e \in SensorEchoes :
         (MeasureCall(e) /\ detection = "on") =>
            IF e = 0
            THEN monResult' = Value(-1) /\ buffer' = buffer
            ELSE sensorAttrs =>
                    /\ buffer' = PushSample(buffer, e)
                    /\ monResult' = Value(Median(PushSample(buffer, e)))]_vars

\* a timed-out call has returned -1 and left earlier samples in the buffer
C18_Witness ==
    /\ detection = "on"
    /\ monResult = Value(-1)
    /\ Len(buffer) >= 2

\* m is a median of buf: at least half of the readings are <= m and at
\* least half are >= m
IsMedian(buf, m) ==
    /\ 2 * Cardinality({i \in 1..Len(buf) : buf[i] <= m}) >= Len(buf)
    /\ 2 * Cardinality({i \in 1..Len(buf) : buf[i] >= m}) >= Len(buf)

\* C19: the buffer never holds more than DISTANCE_BUFFER_SIZE readings, a
\* push onto a full buffer evicts the oldest reading, and a successful call
\* returns the median of the buffer after the push: after 50, 50, 500, 50,
\* 50 the fifth call returns 50.
C19_MedianFilter ==
    /\ [](Len(buffer) <= DISTANCE_BUFFER_SIZE)
    /\ [][\A e \in SensorEchoes \ {0} :
            (MeasureCall(e) /\ detection = "on" /\ sensorAttrs) =>
               /\ buffer' = (IF Len(buffer) = DISTANCE_BUFFER_SIZE
                              THEN Tail(buffer) ELSE buffer) \o <<e>>
               /\ monResult'.kind = "value"
               /\ IsMedian(buffer', monResult'.value)
               /\ (buffer' = <<50, 50, 500, 50, 50>> =>
                      monResult'.value = 50)]_vars

\* the buffer holds 50, 50, 500, 50, 50 after an older reading of 500 was
\* evicted, and the call returned 50
C19_Witness ==
    /\ buffer = <<50, 50, 500, 50, 50>>
    /\ monResult = Value(50)
    /\ evicted = <<500>>

\* C20: the sample buffer is changed only by measure_distance().
C20_BufferOwned ==
    [][buffer' # buffer => \E e \in SensorEchoes : MeasureCall(e)]_vars

\* C21: get_speed() is within [MIN_SPEED_LIMIT, 100] in every reachable
\* state: after construction over any content of the two files and after
\* set_speed(x) for any x.
C21_SpeedInRange == MIN_SPEED_LIMIT <= speed /\ speed <= MAX_SPEED_LIMIT

\* set_speed was called with a value above the range on a MotorControl that
\* was constructed over a malformed runtime_state.json
C21_Witness ==
    /\ speed = MAX_SPEED_LIMIT
    /\ store = MalformedStore
    /\ duty = ApplySpeed(MAX_SPEED_LIMIT)

\* C22: speed persistence round-trips.  After set_speed(x) returns, whatever
\* runtime_state.json held before, a freshly constructed MotorControl reports
\* x clamped to [MIN_SPEED_LIMIT, 100].
C22_RoundTrip ==
    [][\A x \in MotorSpeeds :
         SetSpeedFree(x) => FreshSpeed(store') = ClampSpeed(x)]_vars

\* C23: set_speed changes the duty cycle only of wheels that are energized:
\* called while every wheel is neutral (as after stop()) it leaves all four
\* duty cycles as they were.
C23_SpeedOnlyEnergized ==
    [][\A x \in MotorSpeeds :
         (SetSpeedFree(x) /\ \A w \in Wheels : ~Energized(pins, w)) =>
            duty' = duty]_vars

\* the four diagonal primitives
Diagonals ==
    {"move_left_forward", "move_right_forward", "move_left_back",
     "move_right_back"}

\* C24: each diagonal primitive energizes exactly two wheels, diagonally
\* opposite each other, and leaves the other two neutral.
C24_DiagonalPairs ==
    [][\A name \in Diagonals :
         CallPrimitive(name) =>
            \E w \in Wheels :
                {v \in Wheels : Energized(pins', v)} = {w, DiagonalOf[w]}]_vars

\* HIGH and LOW swapped
Inverse(pat) == <<pat[2], pat[1]>>

\* C25: polarity invariant.  For forward and for back, the pattern written to
\* a right-side wheel is the inverse of the pattern written to a left-side
\* wheel, and the wheels __set_motor_state inverts as right-side are the
\* wheels the control methods and primitives treat as right-side.
C25_Polarity ==
    [][\A w \in Wheels, mode \in {MODE_FORWARD, MODE_BACK} :
         ControlWheel(w, mode) =>
            /\ \A r \in RightWheels, l \in LeftWheels :
                  WheelPattern(pins, r, mode)
                      = Inverse(WheelPattern(pins, l, mode))
            /\ IsRightMotor(WheelPins[w][1]) <=> w \in RightWheels]_vars

\* C26: shutdown is safe from any state.  stop_threads, called at any point
\* (during a rotation's hold, with commands pending, with a measurement in
\* flight), terminates; when it does both loops have ended, all direction
\* pins are LOW and all duty cycles 0; and afterwards no command is executed
\* and no pin changes.
C26_ShutdownSafe ==
    /\ [][ShutdownFinish =>
            (cmdTasks' = 0 /\ monTasks' = 0 /\ FullyStopped(Drive'))]_vars
    /\ [][shutdown = "done" => UNCHANGED <<pins, executed>>]_vars
    /\ (shutdown = "joining") ~> (shutdown = "done")

\* stop_threads has ended after cancelling a rotation inside its hold while
\* a measurement was with the worker thread
C26_Witness ==
    /\ shutdown = "done"
    /\ lastExec = "turn_left"
    /\ detection = "off"
    /\ monPC = "measuring"
    /\ FullyStopped(Drive)
    /\ cmdTasks = 0
    /\ monTasks = 0

\* C27: once stop_threads has cleared the running flag, the dispatcher
\* begins no command that was pending in the queue and the monitor submits
\* no further stop.
C27_NoNewWork ==
    [][(shutdown # "none" /\ ~running) =>
         /\ ~(Dispatch /\ Head(queue) # Sentinel)
         /\ ~(MonitorResult /\ ObstacleDetected(monResult, speed))]_vars

\* a measurement that failed: an error was raised, or the echo timed out
FailedTick == monResult.kind = "error" \/ monResult = Value(-1)

\* C28: each command and each monitor tick is isolated.  A command whose
\* execution raises leaves the dispatcher task alive, in the handler's
\* sleep, from which it returns to get(); commands queued behind it are
\* still executed.  A tick whose measurement fails leaves the monitor task
\* alive and submits nothing; the loop then sleeps, starts the next tick by
\* handing a new measurement to the worker, and receives its result.
C28_FailureIsolated ==
    /\ [][(Dispatch /\ Head(queue).name \in RaisesWithoutArgs) =>
            (cmdTasks' = cmdTasks /\ dispPC' = "errsleep")]_vars
    /\ [][(ErrWake /\ running) =>
            (cmdTasks' = cmdTasks /\ dispPC' = "idle")]_vars
    /\ [][(MonitorResult /\ FailedTick) =>
            (monTasks' = monTasks /\ monPC' = "sleeping"
               /\ queue' = queue)]_vars
    /\ \A i \in 1..MaxCmds :
          (dispPC = "errsleep" /\ InQueue(i))
              ~> (i \in Range(executed) \/ i \in cancelled)
    /\ (monTasks >= 1 /\ monPC = "measured" /\ FailedTick)
          ~> (monTasks >= 1 /\ monPC = "measuring" /\ workPC = "L364")
    /\ (monTasks >= 1 /\ monPC = "measuring")
          ~> (monTasks >= 1 /\ monPC = "measured")

\* the dispatcher sleeps in its handler after set_speed raised, with the
\* next command waiting, and the monitor has received the result of a
\* further tick after a tick that failed (no motion command was executed,
\* so the rangefinder has no pins and every measurement so far has raised)
C28_Witness ==
    /\ running
    /\ dispPC = "errsleep"
    /\ lastExec = "set_speed"
    /\ queue # <<>>
    /\ cmdTasks = 1
    /\ detection = "unset"
    /\ nTicks >= 2
    /\ monPC = "measured"
    /\ FailedTick
    /\ monTasks = 1

\* C29: the writes of one drivetrain call are never interleaved with those
\* of a call made by another task or thread.  Pins and duty cycles are
\* written only in steps of the one dispatcher task, which runs each call to
\* its end without suspending, in set_speed, and in the final stop of
\* stop_threads, which runs only when no dispatcher task is left; the
\* monitor and the worker thread write neither.
C29_SingleWriter ==
    /\ [](cmdTasks <= 1)
    /\ [][(driveVars' # driveVars) =>
            \/ ((Dispatch \/ HoldEnd) /\ cmdTasks = 1)
            \/ (ShutdownFinish /\ cmdTasks = 0)
            \/ \E x \in LoopSpeeds : SetSpeed(x)]_vars
    /\ [][(MonitorResult \/ \E e \in Echoes : MeasureRun(e)) =>
            UNCHANGED driveVars]_vars

\* the monitor's stop, submitted while a motion was energized, has been
\* executed by the dispatcher
C29_Witness ==
    /\ tickStop
    /\ monPC = "sleeping"
    /\ lastExec = "stop"
    /\ queue = <<>>
    /\ Len(executed) >= 1
    /\ FullyStopped(Drive)

\* C30: collaborators reach the core only through add_command and
\* set_speed/get_speed.  Pins and duty cycles change only when the
\* dispatcher executes a command, in set_speed, or in shutdown, and no
\* collaborator calls a primitive, stop() or measure_distance() itself.
C30_OnlyThroughQueue ==
    [][/\ (driveVars' # driveVars) =>
            \/ Dispatch
            \/ HoldEnd
            \/ ShutdownFinish
            \/ \E x \in LoopSpeeds : SetSpeed(x)
       /\ ~AgentStop
       /\ \A direction \in DOMAIN AgentMethod, x \in LoopSpeeds :
              ~AgentMove(direction, x)
       /\ ~AgentMoveLine
       /\ ~AgentMoveEnd
       /\ ~AgentStatus(HazardEcho)]_vars

\* C31: when MotorControl cannot be constructed at start-up, lifespan ends
\* in a start-up failure: it never serves, neither loop is started and no
\* command is executed.
C31_FatalConstruction ==
    (host.pc # "boot" /\ ~host.motor) =>
        /\ host.pc = "failed"
        /\ ~running
        /\ cmdTasks = 0
        /\ monTasks = 0
        /\ executed = <<>>

\* the start-up has failed on the construction of MotorControl
C31_Witness == host.pc = "failed" /\ ~host.motor /\ ~host.executor

\* C32: when MotorControl and CommandExecutor are constructed, lifespan's
\* start step leaves the dispatcher and the monitor running while the
\* application serves, and its shutdown step leaves none of them running
\* and the drivetrain stopped.
C32_LifespanRunsLoops ==
    (host.pc # "boot" /\ host.motor /\ host.executor) =>
        /\ host.pc \in {"serving", "closed"}
        /\ host.pc = "serving" => (running /\ cmdTasks >= 1 /\ monTasks >= 1)
        /\ host.pc = "closed" =>
               (~running /\ cmdTasks = 0 /\ monTasks = 0 /\ FullyStopped(Drive))

\* C33: a raw reading is the pulse duration times (331.3 + 0.606 * T) m/s,
\* halved, in centimetres (here: 10 us * mm/s / 2 = millionths of a cm); for
\* the same pulse every higher temperature gives a larger distance and every
\* lower one a smaller distance; the value returned while that reading is
\* alone in the buffer is the reading to the nearest hundredth of a cm.
C33_TemperatureScaled ==
    sonar.pulse_duration > 0 =>
        /\ 2 * sonar.distance
             = sonar.pulse_duration * (331300 + 606 * sonar.temperature)
        /\ (buffer = <<sonar.distance>> /\ monResult.kind = "value"
               /\ monResult.value >= 0)
              => /\ monResult.value % (MicroCm \div 100) = 0
                 /\ 2 * (monResult.value - sonar.distance) <= MicroCm \div 100
                 /\ 2 * (sonar.distance - monResult.value) < MicroCm \div 100
        /\ \A t \in Temperatures :
              /\ t > sonar.temperature
                    => RawDistance(sonar.pulse_duration, t) > sonar.distance
              /\ t < sonar.temperature
                    => RawDistance(sonar.pulse_duration, t) < sonar.distance

\* a pulse of 1 ms at 20 degrees was measured as 17.171 cm, and it is the
\* only reading in the buffer, so the call returned 17.17
C33_Witness ==
    /\ sonar = [temperature |-> 20, pulse_duration |-> 100,
                distance |-> 17171000]
    /\ buffer = <<17171000>>
    /\ monResult = Value(17170000)

\* a stop is waiting in the queue
StopQueued == \E i \in 1 .. Len(queue) : queue[i].name = "stop"

\* C34: a stop submitted while a motion command is in flight preempts it.
\* The dispatcher's next action on the drivetrain is the execution of that
\* stop: a rotation's hold never runs to its end while a stop is waiting,
\* and no other command is started before the stop.
C34_StopPreempts ==
    [][StopQueued =>
         /\ ~HoldEnd
         /\ (Dispatch => Head(queue).name = "stop")]_vars

\* C35: once the dispatcher has finished handling a rotation, whether it
\* ran to the end of the hold or a hardware write of the primitive or of
\* stop() raised, distance detection is enabled and no wheel is turning.
C35_RotationRestores ==
    (lastExec \in {"turn_left", "turn_right"} /\ dispPC # "hold") =>
        (detection = "on" /\ ~Turning(Drive))

\* C36 as stated: suppression is in force only while the motion dispatched
\* last is move_back.  Whenever the drivetrain is executing another motion
\* the monitor does not skip its iteration.
C36_GraceOnlyWhileBack ==
    [][(lastExec \in MotionPrimitives \ {"move_back"}) => ~MonitorSkip]_vars

\* C36 as amended: suppression follows the submission of move_back, not the
\* motion being executed.  An unexpired grace period ends only when a stop
\* is submitted or its expiry time passes; submitting or dispatching any
\* other command leaves it in force, and while it is in force no monitor
\* iteration starts a measurement.
C36_GraceFollowsSubmission ==
    [][/\ MonitorStart => ~GraceUnexpired(graceActive, graceEnd, now)
       /\ (/\ GraceUnexpired(graceActive, graceEnd, now)
           /\ ~GraceUnexpired(graceActive', graceEnd', now'))
             => (StopSubmitted \/ \E d \in TimeSteps : Advance(d))
       /\ (/\ GraceUnexpired(graceActive, graceEnd, now)
           /\ \/ \E name \in Commands \ {"stop"} : Submit(name)
              \/ Dispatch
              \/ HoldEnd)
             => GraceUnexpired(graceActive', graceEnd', now')]_vars

\* move_forward is being executed inside the grace period an earlier
\* move_back armed, and the monitor has skipped its iteration: it sleeps
\* without having started any measurement
C36_Witness ==
    /\ GraceUnexpired(graceActive, graceEnd, now)
    /\ lastExec = "move_forward"
    /\ queue = <<>>
    /\ nSubmitted = 2
    /\ monPC = "sleeping"
    /\ nTicks = 0

\* the commands of the first n steps of a demo, in order
StepNames(name, n) == [i \in 1 .. n |-> DemoSequence[name][i][1]]

C38_StartDemoStarts ==
    /\ [][\A name \in DemoRequests :
            StartDemo(name) =>
              /\ demo'.started \in {"true", "false"}
              /\ (demo'.started = "true") <=>
                    (demo.task \notin {"ready", "sleeping"}
                       /\ name \in DemoNames)
              /\ (demo'.started = "true") =>
                    (demo'.task = "ready" /\ demo'.name = name)]_vars
    /\ [](demo.task \in {"sleeping", "done"} =>
            \E n \in 0 .. Len(DemoSequence[demo.name]) :
               \/ demo.log = StepNames(demo.name, n)
               \/ demo.log = Append(StepNames(demo.name, n), "stop"))

\* C39: once start_camera_capture has returned True, and until
\* stop_camera_capture is called or a frame read fails, the streaming flag
\* is set and the capture device is open, whatever the capture threads do
\* meanwhile; and no two capture threads are reading at the same time
C39_StreamStaysActive ==
    /\ cam.armed => (cam.streaming /\ cam.cap # 0 /\ cam.cap \in cam.open)
    /\ Cardinality(ReadingThreads) <= 1

\* C40: should_trigger_asr returns True once a speech segment of at least
\* min_speech_duration_ms has been followed by at least
\* min_silence_duration_ms of silence, and returns False while speech is in
\* progress and before any speech was detected
C40_TriggerAfterSpeech ==
    /\ vad.ended = "valid" => ShouldTriggerAsr(vad)
    /\ (vad.is_speaking \/ ~vad.spoke) => ~ShouldTriggerAsr(vad)

====
